---- MODULE Spec2Model ----
(***************************************************************************)
(* jira-zd-bridge: the per-issue reconciliation pass of jzb/bridge.py      *)
(* (Bridge.sync_issue and the steps it calls) as a state machine over the  *)
(* tracker issue, the desk tickets, the redis keys and the SyncContext.    *)
(* One pass is a chain of steps, one per outbound call; people act on the  *)
(* issue and the tickets between passes, and a pass can be interrupted     *)
(* (an exception reaching sync's except clause, or a process restart)      *)
(* between any two steps.                                                  *)
(***************************************************************************)
EXTENDS Integers, Sequences, FiniteSets, TLC

VARIABLES
    issue,       \* the issue as JIRA holds it
    tickets,     \* the tickets as Zendesk holds them; a ticket's id is its index
    redis,       \* the redis keys the bridge reads and writes
    ctx,         \* SyncContext: the issue and ticket snapshots of the running pass
    pc,          \* where the running pass stands ("idle": no pass is running)
    loc,         \* the locals of the step that is running
    cfg,         \* which configuration (rule tables) the bridge was built with
    env,         \* how many times people have acted on the issue or a ticket
    interrupts,  \* how many passes were interrupted
    obs,         \* what the last step did: its outbound write, its eligibility test
    lastRun,     \* the comments both comment steps last ran to completion over
    onceRuns,    \* per side: only_once actions run since that side's status changed
    escRuns,     \* post_escalation calls since people last acted
    quiet,       \* the last pass returned and nobody has acted since
    missed,      \* tickets whose move to another group a pass recorded without escalating
    aborted      \* side and ticket of only_once actions a handler's error left unrun,
                 \* recorded with the last-seen statuses and unchanged since

vars == <<issue, tickets, redis, ctx, pc, loc, cfg, env, interrupts, obs, lastRun, onceRuns,
          escRuns, quiet, missed, aborted>>

----------------------------------------------------------------------------
(* Bounds of the model *)

MaxEnv == 2          \* actions of people, in total
MaxComments == 2     \* comments people write, per side
MaxInterrupts == 1   \* interrupted passes
MaxIters == 3        \* the loop counter of process_status_actions saturates here
MaxWorkerComments == 1   \* comments on each issue and ticket when the workers start

----------------------------------------------------------------------------
(* Configuration: what Bridge.__init__ reads *)

ISSUE_KEY == "JZB-1"

jira_identity == "bot"
zd_identity == "zdbot"
NoAssignee == "nobody"
JiraPeople == {"alice"}

JiraStatuses == {"Open", "Resolved"}
jira_solved_statuses == {"Resolved"}

\* the workflow: the transitions JIRA offers in each status, by name
Workflow ==
    [Open |-> [Resolve |-> "Resolved"], Resolved |-> [Reopen |-> "Open"]]

jira_priority_map == [Major |-> "normal", Blocker |-> "urgent"]
jira_fallback_priority == "low"

\* the priority names issues are created with: one the map has, one it lacks
JiraPriorities == {"Major", "Trivial"}

jira_reference_field == TRUE

assignable_groups ==
    << [id |-> 1, name |-> "Support"],
       [id |-> 2, name |-> "Tier2 Network"],
       [id |-> 3, name |-> "Billing"] >>

GroupIds == {assignable_groups[i].id : i \in DOMAIN assignable_groups}

find_group_by_name(name) ==
    LET hits == {i \in DOMAIN assignable_groups : assignable_groups[i].name = name}
    IN  assignable_groups[CHOOSE i \in hits : \A j \in hits : i <= j]

find_group_by_id(id) ==
    LET hits == {i \in DOMAIN assignable_groups : assignable_groups[i].id = id}
    IN  assignable_groups[CHOOSE i \in hits : \A j \in hits : i <= j]

zd_support_group == find_group_by_name("Support")

\* group_pattern is a compiled regex; it is kept as the set of group names it matches
SimpleStrategyDefs ==
    << [group_pattern |-> {"Tier2 Network"}, contact |-> "tier2lead"],
       [group_pattern |-> {"Tier2 Network", "Tier3 Core"}, contact |-> "oncall"] >>

\* the same with a definition for Billing whose strategy is the Strategy base
\* class: its get_escalation_contact is pass, it returns None
BaseStrategyDefs ==
    Append(SimpleStrategyDefs, [group_pattern |-> {"Billing"}, contact |-> NoAssignee])

\* a bridge built as "F" has the definitions with the base class among them
escalation_strategy_defs ==
    IF cfg = "F" THEN BaseStrategyDefs ELSE SimpleStrategyDefs

NoParams == [status |-> "", name |-> "", tags |-> {}]

Act(type, only_once, params) ==
    [type |-> type, only_once |-> only_once,
     status |-> params.status, name |-> params.name, tags |-> params.tags]

ActionDefsA ==
    [jira |->
        << [jira_status |-> {"Resolved"}, zd_status |-> {"new", "open"}, force |-> TRUE,
            actions |->
              << Act("add_ticket_tags", TRUE, [NoParams EXCEPT !.tags = {"jira_resolved"}]),
                 Act("update_ticket", FALSE, [NoParams EXCEPT !.status = "solved"]) >>],
           [jira_status |-> {"Open"}, zd_status |-> {"solved"}, force |-> FALSE,
            actions |->
              << Act("remove_ticket_tags", FALSE, [NoParams EXCEPT !.tags = {"jira_resolved"}]),
                 Act("update_ticket", FALSE, [NoParams EXCEPT !.status = "open"]) >>] >>,
     zd |->
        << [jira_status |-> {"Open"}, zd_status |-> {"new"}, force |-> FALSE,
            actions |->
              << Act("update_ticket", TRUE, [NoParams EXCEPT !.status = "open"]) >>],
           [jira_status |-> {"Open"}, zd_status |-> {"solved"}, force |-> TRUE,
            actions |->
              << Act("transition_issue", FALSE, [NoParams EXCEPT !.name = "Resolve"]) >>] >>]

\* a table whose only rule leaves both statuses as they are
ActionDefsB ==
    [jira |->
        << [jira_status |-> {"Open"}, zd_status |-> {"new", "open"}, force |-> FALSE,
            actions |->
              << Act("add_ticket_tags", TRUE, [NoParams EXCEPT !.tags = {"bridged"}]) >>] >>,
     zd |-> << >>]

\* tables with two rules for one pair of statuses, and a transition the workflow
\* does not offer
ActionDefsC ==
    [jira |->
        << [jira_status |-> {"Open"}, zd_status |-> {"new"}, force |-> FALSE,
            actions |->
              << Act("update_ticket", FALSE, [NoParams EXCEPT !.status = "open"]) >>],
           [jira_status |-> {"Open"}, zd_status |-> {"new", "open"}, force |-> TRUE,
            actions |->
              << Act("transition_issue", FALSE, [NoParams EXCEPT !.name = "Reopen"]),
                 Act("update_ticket", FALSE, [NoParams EXCEPT !.status = "solved"]) >>] >>,
     zd |->
        << [jira_status |-> {"Open"}, zd_status |-> {"new", "open"}, force |-> TRUE,
            actions |->
              << Act("update_ticket", FALSE, [NoParams EXCEPT !.status = "solved"]) >>] >>]

\* tables where a desk-side rule brings about the statuses of a tracker-side rule:
\* a solved ticket resolves the issue, and a resolved issue closes its solved ticket
ActionDefsD ==
    [jira |->
        << [jira_status |-> {"Resolved"}, zd_status |-> {"solved"}, force |-> TRUE,
            actions |->
              << Act("update_ticket", FALSE, [NoParams EXCEPT !.status = "closed"]) >>] >>,
     zd |->
        << [jira_status |-> {"Open"}, zd_status |-> {"solved"}, force |-> TRUE,
            actions |->
              << Act("transition_issue", FALSE, [NoParams EXCEPT !.name = "Resolve"]) >>] >>]

\* a table whose rule starts with an only_once transition the workflow does not
\* offer, followed by a second only_once action
ActionDefsE ==
    [jira |->
        << [jira_status |-> {"Open"}, zd_status |-> {"new", "open"}, force |-> TRUE,
            actions |->
              << Act("transition_issue", TRUE, [NoParams EXCEPT !.name = "Reopen"]),
                 Act("add_ticket_tags", TRUE, [NoParams EXCEPT !.tags = {"bridged"}]) >>] >>,
     zd |-> << >>]

\* the tables the bridge is built with: in Spec, and in RulesSpec
Configs == {"A", "B", "C"}
RuleConfigs == {"A", "D", "E"}

parse_status_action_defs(c, side) ==
    IF c \in {"A", "F"} THEN ActionDefsA[side]
    ELSE IF c = "B" THEN ActionDefsB[side]
    ELSE IF c = "C" THEN ActionDefsC[side]
    ELSE IF c = "D" THEN ActionDefsD[side]
    ELSE ActionDefsE[side]

----------------------------------------------------------------------------
(* Values *)

\* redis holds strings: a key that is not set reads as <<>> (None), a set key as
\* the one-element sequence of what was written
RedisStr(v) == <<v>>

RedisGet(table, key) == IF key \in DOMAIN table THEN RedisStr(table[key]) ELSE <<>>

RedisSet(table, key, v) ==
    [k \in DOMAIN table \cup {key} |-> IF k = key THEN v ELSE table[k]]

Max(S) == CHOOSE x \in S : \A y \in S : y <= x

NoTicket ==
    [id |-> 0, status |-> "", priority |-> "", group_id |-> 0, tags |-> {}]

NoIssue ==
    [key |-> "", status |-> "", assignee |-> NoAssignee, priority |-> "",
     ref |-> <<>>, comments |-> <<>>]

LocInit ==
    [found |-> 0, foundClosed |-> FALSE, fresh |-> FALSE, t0 |-> 0, refMatched |-> FALSE, ref0 |-> <<>>,
     clist |-> <<>>, ci |-> 0, changed |-> FALSE, rerun |-> FALSE, rerunWrote |-> FALSE,
     strategy |-> 0, escCalls |-> {}, read |-> <<>>, corrective |-> {},
     raised |-> {}, cut |-> {}, scanned |-> {}, hookRaised |-> FALSE, prio0 |-> <<>>,
     owned |-> FALSE, jira_status_changed |-> FALSE, zd_status_changed |-> FALSE,
     side |-> "", rule |-> 0, ai |-> 0, iters |-> 0]

Obs(op) == [op |-> op, elig |-> <<>>]

\* the snapshot of a ticket the desk client hands out (its comments are fetched apart)
TicketSnapshot(t) ==
    [id |-> t.id, status |-> t.status, priority |-> t.priority,
     group_id |-> t.group_id, tags |-> t.tags]

AllZdComments ==
    UNION {{tickets[t].comments[i] : i \in DOMAIN tickets[t].comments} : t \in DOMAIN tickets}

NextZdCommentId == Cardinality(AllZdComments) + 1

NextJiraCommentId == Len(issue.comments) + 1

\* comments of people, as the comment steps tell them from the bridge's own
HumanZdComments(t) ==
    {tickets[t].comments[i] : i \in {j \in DOMAIN tickets[t].comments :
                                        tickets[t].comments[j].author # zd_identity}}

HumanJiraComments ==
    {issue.comments[i] : i \in {j \in DOMAIN issue.comments :
                                   issue.comments[j].author # jira_identity}}

----------------------------------------------------------------------------
(* Initial state: one issue the JQL query returns, no ticket, an empty redis *)

InitWith(configs, priorities) ==
    /\ cfg \in configs
    /\ \E s \in JiraStatuses, a \in {NoAssignee, jira_identity} \cup JiraPeople,
          p \in priorities :
         issue = [key |-> ISSUE_KEY, status |-> s, assignee |-> a, priority |-> p,
                  ref |-> <<>>, comments |-> <<>>]
    /\ tickets = <<>>
    /\ redis = [zd_ticket |-> <<>>,
                last_seen_jira_assignee |-> <<>>,
                last_seen_zd_group |-> <<>>,
                last_seen_jira_status |-> <<>>,
                last_seen_zd_status |-> <<>>,
                seen_zd_comments |-> {},
                seen_jira_comments |-> {}]
    /\ ctx = [issue |-> NoIssue, ticket |-> NoTicket]
    /\ pc = "idle"
    /\ loc = LocInit
    /\ env = 0
    /\ interrupts = 0
    /\ obs = Obs("none")
    /\ lastRun = <<>>
    /\ onceRuns = [jira |-> 0, zd |-> 0]
    /\ escRuns = 0
    /\ quiet = FALSE
    /\ missed = {}
    /\ aborted = {}

\* an issue of a priority the map has, and a bridge built with one of Configs
Init == InitWith(Configs, {"Major"})

\* the same with the tables of RuleConfigs
RulesInit == InitWith(RuleConfigs, {"Major"})

\* an issue of either priority, and the bridge built with table A
PrioInit == InitWith({"A"}, JiraPriorities)

\* the bridge built with table A and a strategy of the base class
RaceInit == InitWith({"F"}, {"Major"})

----------------------------------------------------------------------------
(* sync: one pass over the issue begins *)

sync ==
    /\ pc = "idle"
    /\ ctx' = [issue |-> issue, ticket |-> NoTicket]
    /\ pc' = "ensure"
    /\ loc' = LocInit
    /\ obs' = Obs("none")
    /\ UNCHANGED <<issue, tickets, redis, cfg, env, interrupts, lastRun, onceRuns, escRuns, quiet, missed, aborted>>

----------------------------------------------------------------------------
(* ensure_ticket_if_eligible *)

\* is_issue_eligible without its test of the assignee
is_issue_eligible_any_assignee(status, assignee) ==
    status \notin jira_solved_statuses

is_issue_eligible(status, assignee) ==
    IF status \in jira_solved_statuses
    THEN FALSE
    ELSE IF assignee # NoAssignee /\ assignee # jira_identity
         THEN FALSE
         ELSE TRUE

\* zd_client.find_first(query, sort_by='created_at', sort_order='desc'): the id of
\* the newest ticket whose external id is the issue key, 0 when there is none
find_first(key) ==
    LET hits == {t \in DOMAIN tickets : tickets[t].external_id = key}
    IN  IF hits = {} THEN 0 ELSE Max(hits)

\* the ticket the lookup yields: the cached id's ticket, else the search's
lookup_ticket(cached, key) ==
    IF cached # <<>> THEN cached[1] ELSE find_first(key)

\* is_issue_eligible asked on every pass, whatever ticket was found
needs_new_ticket_always(found) == TRUE

\* a closed ticket taken for the issue's ticket like any other
needs_new_ticket_when_none(found) ==
    found = 0

\* whether the ticket found (0: none) makes the pass ask for eligibility
needs_new_ticket(found) ==
    found = 0 \/ tickets[found].status = "closed"

\* sync_issue going on whatever is_issue_eligible says
ensure_outcome_never_skips(found, eligible) ==
    IF found = 0 THEN "create"
    ELSE IF tickets[found].status = "closed" THEN "followup"
    ELSE "use"

\* the branches of ensure_ticket_if_eligible: "skip" is return False
ensure_outcome(found, eligible) ==
    IF found = 0
    THEN IF ~eligible THEN "skip" ELSE "create"
    ELSE IF tickets[found].status = "closed"
         THEN IF ~eligible THEN "skip" ELSE "followup"
         ELSE "use"

ensure_ticket_if_eligible ==
    /\ pc = "ensure"
    /\ LET cached == redis.zd_ticket
           found == lookup_ticket(cached, ctx.issue.key)
           eligible == is_issue_eligible(ctx.issue.status, ctx.issue.assignee)
           outcome == IF needs_new_ticket(found) THEN ensure_outcome(found, eligible) ELSE "use"
       IN  /\ obs' = IF needs_new_ticket(found)
                     THEN [op |-> "none",
                           elig |-> << [status |-> ctx.issue.status,
                                        assignee |-> ctx.issue.assignee,
                                        result |-> eligible,
                                        found |-> found,
                                        pre |-> [issue |-> issue, tickets |-> tickets,
                                                 redis |-> redis]] >>]
                     ELSE Obs("none")
           /\ IF outcome = "skip"
              THEN /\ pc' = "idle"
                   /\ loc' = LocInit
                   /\ ctx' = [issue |-> NoIssue, ticket |-> NoTicket]
              ELSE IF outcome = "use"
              THEN /\ pc' = "cache"
                   /\ loc' = [loc EXCEPT !.found = found,
                                         !.foundClosed = (tickets[found].status = "closed"),
                                         !.t0 = Len(tickets)]
                   /\ ctx' = [ctx EXCEPT !.ticket = TicketSnapshot(tickets[found])]
              ELSE /\ pc' = outcome
                   /\ loc' = [loc EXCEPT !.found = found,
                                         !.foundClosed = (found # 0 /\ tickets[found].status = "closed"),
                                         !.fresh = (found = 0 /\ cached = <<>>),
                                         !.t0 = Len(tickets)]
                   /\ ctx' = ctx
    /\ UNCHANGED <<issue, tickets, redis, cfg, env, interrupts, lastRun, onceRuns, escRuns>>
    /\ quiet' = IF pc' = "idle" THEN TRUE ELSE quiet
    /\ missed' = missed
    /\ aborted' = aborted

\* create_ticket called without external_id
new_ticket_no_external_id(id, external_id, group_id, followup_source_id) ==
    [id |-> id, status |-> "new", priority |-> "", group_id |-> group_id,
     external_id |-> "", via_followup_source_id |-> followup_source_id,
     tags |-> {},
     comments |-> << [id |-> NextZdCommentId, author |-> zd_identity,
                      public |-> TRUE, src |-> 0] >>]

\* zd_client.create_ticket(...): the ticket Zendesk makes of the call
new_ticket(id, external_id, group_id, followup_source_id) ==
    [id |-> id, status |-> "new", priority |-> "", group_id |-> group_id,
     external_id |-> external_id, via_followup_source_id |-> followup_source_id,
     tags |-> {},
     comments |-> << [id |-> NextZdCommentId, author |-> zd_identity,
                      public |-> TRUE, src |-> 0] >>]

create_ticket ==
    /\ pc = "create"
    /\ LET t == new_ticket(Len(tickets) + 1, ctx.issue.key, zd_support_group.id, 0)
       IN  /\ tickets' = Append(tickets, t)
           /\ ctx' = [ctx EXCEPT !.ticket = TicketSnapshot(t)]
    /\ pc' = "cache"
    /\ obs' = Obs("create_ticket")
    /\ onceRuns' = [onceRuns EXCEPT !.zd = 0]
    /\ UNCHANGED <<issue, redis, loc, cfg, env, interrupts, lastRun, escRuns, quiet, missed, aborted>>

create_followup_ticket ==
    /\ pc = "followup"
    /\ LET t == new_ticket(Len(tickets) + 1, ctx.issue.key, zd_support_group.id, loc.found)
       IN  /\ tickets' = Append(tickets, t)
           /\ ctx' = [ctx EXCEPT !.ticket = TicketSnapshot(t)]
    /\ pc' = "cache"
    /\ obs' = Obs("create_ticket")
    /\ onceRuns' = [onceRuns EXCEPT !.zd = 0]
    /\ UNCHANGED <<issue, redis, loc, cfg, env, interrupts, lastRun, escRuns, quiet, missed, aborted>>

\* the value written under zd_ticket:<issue key>
cached_ticket_id(ticket) == RedisStr(ticket.id)

cache_ticket ==
    /\ pc = "cache"
    /\ redis' = [redis EXCEPT !.zd_ticket = cached_ticket_id(ctx.ticket)]
    /\ pc' = "ref"
    /\ obs' = Obs("none")
    /\ UNCHANGED <<issue, tickets, ctx, loc, cfg, env, interrupts, lastRun, onceRuns, escRuns, quiet, missed, aborted>>

----------------------------------------------------------------------------
(* sync_jira_reference, sync_priority *)

\* str(ctx.ticket.id)
ticket_id_str(ticket) == RedisStr(ticket.id)

\* sync_jira_reference without its comparison: the field is written on every pass
reference_always_written(ref, ticket) == TRUE

reference_differs(ref, ticket) == ref # ticket_id_str(ticket)

sync_jira_reference ==
    /\ pc = "ref"
    /\ IF jira_reference_field /\ reference_differs(ctx.issue.ref, ctx.ticket)
       THEN /\ issue' = [issue EXCEPT !.ref = ticket_id_str(ctx.ticket)]
            /\ ctx' = [ctx EXCEPT !.issue = issue']
            /\ obs' = Obs("issue.update")
       ELSE /\ UNCHANGED <<issue, ctx>>
            /\ obs' = Obs("none")
    /\ loc' = [loc EXCEPT !.refMatched = (ctx.issue.ref = <<ctx.ticket.id>>),
                          !.ref0 = ctx.issue.ref]
    /\ pc' = "prio"
    /\ UNCHANGED <<tickets, redis, cfg, env, interrupts, lastRun, onceRuns, escRuns, quiet, missed, aborted>>

\* the lookup without its default: an unmapped name yields no priority
mapped_priority_no_fallback(jira_priority) ==
    IF jira_priority \in DOMAIN jira_priority_map
    THEN jira_priority_map[jira_priority]
    ELSE ""

\* self.jira_priority_map.get(jira_priority, self.jira_fallback_priority)
mapped_priority(jira_priority) ==
    IF jira_priority \in DOMAIN jira_priority_map
    THEN jira_priority_map[jira_priority]
    ELSE jira_fallback_priority

\* ticket.update(**kwargs) for plain fields: the ticket with the fields set
ticket_update(t, fields) ==
    [f \in DOMAIN t |-> IF f \in DOMAIN fields THEN fields[f] ELSE t[f]]

sync_priority ==
    /\ pc = "prio"
    /\ LET zd_priority == mapped_priority(ctx.issue.priority)
           id == ctx.ticket.id
       IN  IF ctx.ticket.priority # zd_priority
           THEN /\ tickets' = [tickets EXCEPT ![id] = ticket_update(@, [priority |-> zd_priority])]
                /\ ctx' = [ctx EXCEPT !.ticket = TicketSnapshot(tickets'[id])]
                /\ obs' = Obs("ticket.update")
           ELSE /\ UNCHANGED <<tickets, ctx>>
                /\ obs' = Obs("none")
    /\ loc' = [loc EXCEPT !.prio0 = << ctx.ticket.priority >>]
    /\ pc' = "assignee"
    /\ UNCHANGED <<issue, redis, cfg, env, interrupts, lastRun, onceRuns, escRuns, quiet, missed, aborted>>

----------------------------------------------------------------------------
(* sync_assignee, handle_escalation *)

NoCtx == [issue |-> NoIssue, ticket |-> NoTicket]

\* sync_assignee without its comparison of the group with the last one seen
assignee_branch_any_group(assignee, group_id, last_seen_jira_assignee, last_seen_zd_group) ==
    IF assignee = NoAssignee THEN "unassigned"
    ELSE IF RedisStr(assignee) # last_seen_jira_assignee THEN "assignee_changed"
    ELSE "group_changed"

\* sync_assignee with its two elif tests swapped: the group is compared first
assignee_branch_group_first(assignee, group_id, last_seen_jira_assignee, last_seen_zd_group) ==
    IF assignee = NoAssignee THEN "unassigned"
    ELSE IF RedisStr(group_id) # last_seen_zd_group THEN "group_changed"
    ELSE IF RedisStr(assignee) # last_seen_jira_assignee THEN "assignee_changed"
    ELSE "unchanged"

\* which branch of sync_assignee the pass takes
assignee_branch(assignee, group_id, last_seen_jira_assignee, last_seen_zd_group) ==
    IF assignee = NoAssignee THEN "unassigned"
    ELSE IF RedisStr(assignee) # last_seen_jira_assignee THEN "assignee_changed"
    ELSE IF RedisStr(group_id) # last_seen_zd_group THEN "group_changed"
    ELSE "unchanged"

\* the ticket update without the test of the assignee's name
moves_to_support_any_assignee(branch, assignee, group_id) ==
    /\ branch = "assignee_changed"
    /\ group_id # zd_support_group.id

\* the inner if of the first elif: the ticket goes to the support group
moves_to_support(branch, assignee, group_id) ==
    /\ branch = "assignee_changed"
    /\ assignee = jira_identity
    /\ group_id # zd_support_group.id

\* sync_assignee with its two redis.set calls inside the escalation branch: only a
\* pass that saw the group change records what it saw
records_last_seen_on_group_change(branch) == branch = "group_changed"

\* else: return is the one branch that leaves before the two redis.set calls
records_last_seen(branch) == branch # "unchanged"

sync_assignee ==
    /\ pc = "assignee"
    /\ LET id == ctx.ticket.id
           branch == assignee_branch(ctx.issue.assignee, ctx.ticket.group_id,
                                     redis.last_seen_jira_assignee,
                                     RedisGet(redis.last_seen_zd_group, id))
           to_support == moves_to_support(branch, ctx.issue.assignee, ctx.ticket.group_id)
       IN  /\ issue' = IF branch = "unassigned"
                       THEN [issue EXCEPT !.assignee = jira_identity]
                       ELSE issue
           /\ tickets' = IF to_support
                         THEN [tickets EXCEPT ![id] =
                                  ticket_update(@, [group_id |-> zd_support_group.id])]
                         ELSE tickets
           /\ ctx' = [issue |-> IF branch = "unassigned" THEN issue' ELSE ctx.issue,
                      ticket |-> IF to_support THEN TicketSnapshot(tickets'[id])
                                 ELSE ctx.ticket]
           /\ obs' = Obs(IF branch = "unassigned" THEN "assign_issue"
                         ELSE IF to_support THEN "ticket.update" ELSE "none")
           /\ pc' = IF ~records_last_seen(branch) THEN "zd2jira"
                    ELSE IF branch = "group_changed"
                            /\ ctx.ticket.group_id # zd_support_group.id
                         THEN "escalate"
                         ELSE "persist_assignee"
           /\ loc' = [loc EXCEPT !.corrective =
                         IF branch = "unassigned" THEN {"assign_to_bot"}
                         ELSE IF to_support THEN {"move_to_support"} ELSE {},
                                 !.read =
                         << [assignee |-> ctx.issue.assignee,
                             group_id |-> ctx.ticket.group_id,
                             last_seen_jira_assignee |-> redis.last_seen_jira_assignee,
                             last_seen_zd_group |-> RedisGet(redis.last_seen_zd_group, id)] >>]
           /\ missed' = IF to_support THEN missed \ {id} ELSE missed
    /\ UNCHANGED <<redis, cfg, env, interrupts, lastRun, onceRuns, escRuns, quiet, aborted>>

\* the definitions whose pattern matches the group's name
matching_strategy_defs(group_name) ==
    {i \in DOMAIN escalation_strategy_defs :
        group_name \in escalation_strategy_defs[i].group_pattern}

\* handle_escalation without its break: the last matching definition is used
last_matching_strategy(group_name) ==
    LET hits == matching_strategy_defs(group_name)
    IN  IF hits = {} THEN 0 ELSE Max(hits)

\* handle_escalation with a default: the first definition is used when none matches
first_matching_strategy_or_default(group_name) ==
    LET hits == matching_strategy_defs(group_name)
    IN  IF hits = {} THEN 1 ELSE CHOOSE i \in hits : \A j \in hits : i <= j

\* the definition the for loop of handle_escalation stops at (0: none matches)
first_matching_strategy(group_name) ==
    LET hits == matching_strategy_defs(group_name)
    IN  IF hits = {} THEN 0 ELSE CHOOSE i \in hits : \A j \in hits : i <= j

\* get_escalation_contact, assign_issue, refresh_issue of the matched definition
handle_escalation ==
    /\ pc = "escalate"
    /\ LET group == find_group_by_id(ctx.ticket.group_id)
           m == first_matching_strategy(group.name)
       IN  IF m = 0
           THEN /\ pc' = "persist_assignee"
                /\ obs' = Obs("none")
                /\ UNCHANGED <<issue, ctx, loc>>
           ELSE /\ issue' = [issue EXCEPT !.assignee = escalation_strategy_defs[m].contact]
                /\ ctx' = [ctx EXCEPT !.issue = issue']
                /\ loc' = [loc EXCEPT !.strategy = m,
                              !.corrective = @ \cup {"escalate"},
                              !.escCalls = @ \cup {[method |-> "get_escalation_contact",
                                                    def |-> m]}]
                /\ obs' = Obs("assign_issue")
                /\ pc' = "post_escalation"
    /\ UNCHANGED <<tickets, redis, cfg, env, interrupts, lastRun, onceRuns, escRuns, quiet, missed, aborted>>

\* handle_escalation without the try around the hook: what the hook raises ends
\* the pass in sync's except clause
after_post_escalation_unguarded(hook_raised) ==
    IF hook_raised THEN "idle" ELSE "persist_assignee"

\* except: LOG.exception(..); match = True; break, and sync_assignee goes on to
\* its two redis.set calls, whether the hook raised or not
after_post_escalation(hook_raised) == "persist_assignee"

\* strategy.post_escalation(): the hook is code of the deployment and may raise
post_escalation ==
    /\ pc = "post_escalation"
    /\ \E hook_raised \in BOOLEAN :
          /\ loc' = [loc EXCEPT !.escCalls = @ \cup {[method |-> "post_escalation",
                                                      def |-> loc.strategy]},
                                !.hookRaised = hook_raised]
          /\ pc' = after_post_escalation(hook_raised)
    /\ obs' = Obs("none")
    /\ escRuns' = IF escRuns < 2 THEN escRuns + 1 ELSE escRuns
    /\ UNCHANGED <<issue, tickets, redis, ctx, cfg, env, interrupts, lastRun, onceRuns>>
    /\ quiet' = quiet
    /\ missed' = missed
    /\ aborted' = aborted

\* redis.set('last_seen_jira_assignee:..', ctx.issue.fields.assignee.name): with no
\* assignee the attribute access raises and the pass ends in sync's except clause
persist_assignee ==
    /\ pc = "persist_assignee"
    /\ IF ctx.issue.assignee = NoAssignee
       THEN /\ pc' = "idle"
            /\ ctx' = NoCtx
            /\ loc' = LocInit
            /\ redis' = redis
       ELSE /\ redis' = [redis EXCEPT !.last_seen_jira_assignee = RedisStr(ctx.issue.assignee)]
            /\ pc' = "persist_group"
            /\ UNCHANGED <<ctx, loc>>
    /\ obs' = Obs("none")
    /\ UNCHANGED <<issue, tickets, cfg, env, interrupts, lastRun, onceRuns, escRuns>>
    /\ quiet' = IF pc' = "idle" THEN FALSE ELSE quiet
    /\ missed' = missed
    /\ aborted' = aborted

\* the pass took the unassigned or the changed-assignee branch, and the group it
\* is about to record is a group other than support that it had not recorded before
RecordsUnescalatedMove ==
    /\ loc.read # <<>>
    /\ assignee_branch(loc.read[1].assignee, loc.read[1].group_id,
                       loc.read[1].last_seen_jira_assignee,
                       loc.read[1].last_seen_zd_group) \in {"unassigned", "assignee_changed"}
    /\ ctx.ticket.group_id # zd_support_group.id
    /\ RedisStr(ctx.ticket.group_id) # RedisGet(redis.last_seen_zd_group, ctx.ticket.id)

persist_group ==
    /\ pc = "persist_group"
    /\ redis' = [redis EXCEPT !.last_seen_zd_group =
                    RedisSet(@, ctx.ticket.id, ctx.ticket.group_id)]
    /\ pc' = "zd2jira"
    /\ obs' = Obs("none")
    /\ missed' = IF RecordsUnescalatedMove THEN missed \cup {ctx.ticket.id} ELSE missed
    /\ UNCHANGED <<issue, tickets, ctx, loc, cfg, env, interrupts, lastRun, onceRuns, escRuns, quiet, aborted>>

----------------------------------------------------------------------------
(* sync_zd_comments_to_jira, sync_jira_comments_to_zd *)

\* what both comment steps read of the issue/ticket pair: the comments of people
CommentSnapshot(id) ==
    [ticket |-> id, zd |-> HumanZdComments(id), jira |-> HumanJiraComments]

\* the loop over ctx.ticket.comments without its sismember test
zd_comment_skipped_ignoring_seen(comment, seen) ==
    \/ ~comment.public
    \/ comment.author = zd_identity

\* the loop over the issue's comments without its sismember test
jira_comment_skipped_ignoring_seen(comment, seen) ==
    comment.author = jira_identity

\* the three continue tests of the loop over ctx.ticket.comments
zd_comment_skipped(comment, seen) ==
    \/ ~comment.public
    \/ comment.author = zd_identity
    \/ comment.id \in seen

\* the two continue tests of the loop over ctx.issue.fields.comment.comments
jira_comment_skipped(comment, seen) ==
    \/ comment.author = jira_identity
    \/ comment.id \in seen

\* the comment the bridge writes for a source comment: the body it renders is
\* kept as the source comment's id
rendered_comment(id, author, source) ==
    [id |-> id, author |-> author, public |-> TRUE, src |-> source.id]

\* the desk handing out the newest comment first
ticket_comments_newest_first(t) ==
    [j \in DOMAIN t.comments |-> t.comments[Len(t.comments) + 1 - j]]

\* ctx.ticket.comments: the desk hands out the ticket's comments, oldest first
ticket_comments(t) == t.comments

\* for comment in ctx.ticket.comments
sync_zd_comments_to_jira ==
    /\ pc = "zd2jira"
    /\ loc' = [loc EXCEPT !.clist = ticket_comments(tickets[ctx.ticket.id]),
                          !.ci = 1,
                          !.changed = FALSE,
                          !.rerun = (lastRun = <<CommentSnapshot(ctx.ticket.id)>>)]
    /\ pc' = "zd_comment"
    /\ obs' = Obs("none")
    /\ UNCHANGED <<issue, tickets, redis, ctx, cfg, env, interrupts, lastRun, onceRuns, escRuns, quiet, missed, aborted>>

\* one turn of the loop up to jira_client.add_comment; after the last comment,
\* refresh_issue if a comment was copied
zd_comment ==
    /\ pc = "zd_comment"
    /\ IF loc.ci > Len(loc.clist)
       THEN /\ ctx' = IF loc.changed THEN [ctx EXCEPT !.issue = issue] ELSE ctx
            /\ loc' = [loc EXCEPT !.ci = 1]
            /\ pc' = "jira_comment"
            /\ obs' = Obs("none")
            /\ issue' = issue
       ELSE IF zd_comment_skipped(loc.clist[loc.ci], redis.seen_zd_comments)
            THEN /\ loc' = [loc EXCEPT !.ci = @ + 1]
                 /\ pc' = pc
                 /\ obs' = Obs("none")
                 /\ UNCHANGED <<issue, ctx>>
            ELSE /\ issue' = [issue EXCEPT !.comments =
                                 Append(@, rendered_comment(NextJiraCommentId, jira_identity,
                                                            loc.clist[loc.ci]))]
                 /\ loc' = [loc EXCEPT !.rerunWrote = @ \/ loc.rerun]
                 /\ pc' = "zd_comment_seen"
                 /\ obs' = Obs("add_comment")
                 /\ ctx' = ctx
    /\ UNCHANGED <<tickets, redis, cfg, env, interrupts, lastRun, onceRuns, escRuns, quiet, missed, aborted>>

\* redis.sadd('seen_zd_comments', comment.id); changed = True
zd_comment_seen ==
    /\ pc = "zd_comment_seen"
    /\ redis' = [redis EXCEPT !.seen_zd_comments = @ \cup {loc.clist[loc.ci].id}]
    /\ loc' = [loc EXCEPT !.ci = @ + 1, !.changed = TRUE, !.rerunWrote = @ \/ loc.rerun]
    /\ pc' = "zd_comment"
    /\ obs' = Obs("none")
    /\ UNCHANGED <<issue, tickets, ctx, cfg, env, interrupts, lastRun, onceRuns, escRuns, quiet, missed, aborted>>

\* ticket.update(comment=dict(body=..)): the comment is the API user's, and public
ticket_add_comment(t, source) ==
    [t EXCEPT !.comments = Append(@, rendered_comment(NextZdCommentId, zd_identity, source))]

\* one turn of the loop over ctx.issue.fields.comment.comments up to ticket.update
jira_comment ==
    /\ pc = "jira_comment"
    /\ IF loc.ci > Len(ctx.issue.comments)
       THEN /\ lastRun' = <<CommentSnapshot(ctx.ticket.id)>>
            /\ pc' = "status"
            /\ obs' = Obs("none")
            /\ UNCHANGED <<tickets, loc>>
       ELSE IF jira_comment_skipped(ctx.issue.comments[loc.ci], redis.seen_jira_comments)
            THEN /\ loc' = [loc EXCEPT !.ci = @ + 1]
                 /\ pc' = pc
                 /\ obs' = Obs("none")
                 /\ UNCHANGED <<tickets, lastRun>>
            ELSE /\ tickets' = [tickets EXCEPT ![ctx.ticket.id] =
                                   ticket_add_comment(@, ctx.issue.comments[loc.ci])]
                 /\ loc' = [loc EXCEPT !.rerunWrote = @ \/ loc.rerun]
                 /\ pc' = "jira_comment_seen"
                 /\ obs' = Obs("ticket.update")
                 /\ lastRun' = lastRun
    /\ UNCHANGED <<issue, redis, ctx, cfg, env, interrupts, onceRuns, escRuns, quiet, missed, aborted>>

\* redis.sadd('seen_jira_comments', comment.id)
jira_comment_seen ==
    /\ pc = "jira_comment_seen"
    /\ redis' = [redis EXCEPT !.seen_jira_comments = @ \cup {ctx.issue.comments[loc.ci].id}]
    /\ loc' = [loc EXCEPT !.ci = @ + 1, !.rerunWrote = @ \/ loc.rerun]
    /\ pc' = "jira_comment"
    /\ obs' = Obs("none")
    /\ UNCHANGED <<issue, tickets, ctx, cfg, env, interrupts, lastRun, onceRuns, escRuns, quiet, missed, aborted>>

----------------------------------------------------------------------------
(* sync_status, process_status_actions and the action handlers *)

action_defs == parse_status_action_defs(cfg, loc.side)

\* whether a rule applies: the two continue tests of the loop over action_defs
action_def_matches(def, owned, jira_status, zd_status) ==
    /\ owned \/ def.force
    /\ jira_status \in def.jira_status
    /\ zd_status \in def.zd_status

\* the for loop without its break: the last rule that matches is the one left
last_matching_def(defs, owned, jira_status, zd_status) ==
    LET hits == {i \in DOMAIN defs : action_def_matches(defs[i], owned, jira_status, zd_status)}
    IN  IF hits = {} THEN 0 ELSE Max(hits)

\* the rule the for loop stops at (0: no rule matches)
first_matching_def(defs, owned, jira_status, zd_status) ==
    LET hits == {i \in DOMAIN defs : action_def_matches(defs[i], owned, jira_status, zd_status)}
    IN  IF hits = {} THEN 0 ELSE CHOOSE i \in hits : \A j \in hits : i <= j

\* the changed flag sync_status hands to process_status_actions for a side
status_changed(last_seen, status) == last_seen # RedisStr(status)

\* with no assignee, ctx.issue.fields.assignee.name raises and the pass ends in
\* sync's except clause
sync_status ==
    /\ pc = "status"
    /\ IF ctx.issue.assignee = NoAssignee
       THEN /\ pc' = "idle"
            /\ ctx' = NoCtx
            /\ loc' = LocInit
       ELSE /\ loc' = [loc EXCEPT
                         !.owned = (ctx.issue.assignee = jira_identity),
                         !.jira_status_changed =
                             status_changed(redis.last_seen_jira_status, ctx.issue.status),
                         !.zd_status_changed =
                             status_changed(RedisGet(redis.last_seen_zd_status, ctx.ticket.id),
                                            ctx.ticket.status),
                         !.side = "jira", !.rule = 0, !.ai = 0, !.iters = 0]
            /\ pc' = "rules"
            /\ ctx' = ctx
    /\ obs' = Obs("none")
    /\ UNCHANGED <<issue, tickets, redis, cfg, env, interrupts, lastRun, onceRuns, escRuns>>
    /\ quiet' = IF pc' = "idle" THEN FALSE ELSE quiet
    /\ missed' = missed
    /\ aborted' = aborted

\* process_status_actions is left: the other table is next, then the last-seen writes
AfterRules(l) ==
    IF l.side = "jira"
    THEN [l EXCEPT !.side = "zd", !.rule = 0, !.ai = 0, !.iters = 0]
    ELSE [l EXCEPT !.side = "", !.rule = 0, !.ai = 0, !.iters = 0]

\* sync_status leaving without its two redis.set calls once a handler has raised
AfterRulesPc_skips_writes_on_error(l) ==
    IF l.side = "jira" THEN "rules"
    ELSE IF l.raised # {} THEN "done" ELSE "persist_jira_status"

\* after the tracker-side table the desk-side table, then the two redis.set calls
AfterRulesPc(l) == IF l.side = "jira" THEN "rules" ELSE "persist_jira_status"

\* the except clause without its return: the rule's next action is run
after_handler_error_goes_on(l) ==
    [pc |-> "action", loc |-> [l EXCEPT !.ai = @ + 1]]

\* except: LOG.exception('Failed to perform action'); return
after_handler_error(l) ==
    [pc |-> AfterRulesPc(l), loc |-> AfterRules(l)]

\* one turn of the while loop: the scan of the table
process_status_actions ==
    /\ pc = "rules"
    /\ LET m == first_matching_def(action_defs, loc.owned, ctx.issue.status, ctx.ticket.status)
       IN  IF m = 0
           THEN /\ loc' = [AfterRules(loc) EXCEPT !.scanned = @ \cup {loc.side}]
                /\ pc' = AfterRulesPc(loc)
           ELSE /\ loc' = [loc EXCEPT !.rule = m, !.ai = 1,
                                      !.scanned = @ \cup {loc.side},
                                      !.iters = IF @ < MaxIters THEN @ + 1 ELSE @]
                /\ pc' = "action"
    /\ obs' = Obs("none")
    /\ UNCHANGED <<issue, tickets, redis, ctx, cfg, env, interrupts, lastRun, onceRuns, escRuns, quiet, missed, aborted>>

CurrentActions == action_defs[loc.rule].actions

CurrentAction == CurrentActions[loc.ai]

CurrentChanged ==
    IF loc.side = "jira" THEN loc.jira_status_changed ELSE loc.zd_status_changed

\* if action.only_once and not changed: continue
only_once_skipped(action, changed) == action.only_once /\ ~changed

\* the matched rule's actions are through: break, and the while loop turns again
action_def_done ==
    /\ pc = "action"
    /\ loc.ai > Len(CurrentActions)
    /\ pc' = "rules"
    /\ loc' = [loc EXCEPT !.rule = 0, !.ai = 0]
    /\ obs' = Obs("none")
    /\ UNCHANGED <<issue, tickets, redis, ctx, cfg, env, interrupts, lastRun, onceRuns, escRuns, quiet, missed, aborted>>

skip_only_once ==
    /\ pc = "action"
    /\ loc.ai <= Len(CurrentActions)
    /\ only_once_skipped(CurrentAction, CurrentChanged)
    /\ loc' = [loc EXCEPT !.ai = @ + 1]
    /\ pc' = pc
    /\ obs' = Obs("none")
    /\ UNCHANGED <<issue, tickets, redis, ctx, cfg, env, interrupts, lastRun, onceRuns, escRuns, quiet, missed, aborted>>

\* the action whose handler runs next, of the given type
Runs(type) ==
    /\ pc = "action"
    /\ loc.ai <= Len(CurrentActions)
    /\ ~only_once_skipped(CurrentAction, CurrentChanged)
    /\ CurrentAction.type = type

\* a side's count of only_once runs: back to 0 when the side's status changes
Counted(n, status_changes, action) ==
    LET base == IF status_changes THEN 0 ELSE n
    IN  IF action.only_once /\ base < 2 THEN base + 1 ELSE base

OnceRunsAfter(jira_changes, zd_changes) ==
    [jira |-> IF loc.side = "jira"
              THEN Counted(onceRuns.jira, jira_changes, CurrentAction)
              ELSE IF jira_changes THEN 0 ELSE onceRuns.jira,
     zd |-> IF loc.side = "zd"
            THEN Counted(onceRuns.zd, zd_changes, CurrentAction)
            ELSE IF zd_changes THEN 0 ELSE onceRuns.zd]

\* ctx.ticket = ctx.ticket.update(**kwargs)
handle_update_ticket ==
    /\ Runs("update_ticket")
    /\ LET id == ctx.ticket.id
       IN  /\ tickets' = [tickets EXCEPT ![id] =
                             ticket_update(@, [status |-> CurrentAction.status])]
           /\ ctx' = [ctx EXCEPT !.ticket = TicketSnapshot(tickets'[id])]
           /\ onceRuns' = OnceRunsAfter(FALSE, tickets'[id].status # tickets[id].status)
           /\ aborted' = IF tickets'[id].status # tickets[id].status THEN {} ELSE aborted
    /\ loc' = [loc EXCEPT !.ai = @ + 1]
    /\ pc' = pc
    /\ obs' = Obs("ticket.update")
    /\ UNCHANGED <<issue, redis, cfg, env, interrupts, lastRun, escRuns, quiet, missed>>

\* the transitions JIRA offers for the issue
transitions(status) == Workflow[status]

\* the action whose handler runs next, or one after it in the rule, is only_once:
\* the return after an error leaves it unrun
LeavesOnlyOnceUnrun ==
    \E k \in loc.ai..Len(CurrentActions) : CurrentActions[k].only_once

\* the named transition is looked up among those on offer; ValueError when it is
\* not there, which process_status_actions catches: it returns
handle_transition_issue ==
    /\ Runs("transition_issue")
    /\ IF CurrentAction.name \in DOMAIN transitions(issue.status)
       THEN /\ issue' = [issue EXCEPT !.status = transitions(issue.status)[CurrentAction.name]]
            /\ ctx' = [ctx EXCEPT !.issue = issue']
            /\ onceRuns' = OnceRunsAfter(TRUE, FALSE)
            /\ loc' = [loc EXCEPT !.ai = @ + 1]
            /\ pc' = pc
            /\ obs' = Obs("transition_issue")
            /\ aborted' = {}
       ELSE /\ onceRuns' = OnceRunsAfter(FALSE, FALSE)
            /\ loc' = [after_handler_error(loc).loc EXCEPT
                          !.raised = @ \cup {loc.side},
                          !.cut = IF LeavesOnlyOnceUnrun THEN @ \cup {loc.side} ELSE @]
            /\ pc' = after_handler_error(loc).pc
            /\ obs' = Obs("none")
            /\ UNCHANGED <<issue, ctx, aborted>>
    /\ UNCHANGED <<tickets, redis, cfg, env, interrupts, lastRun, escRuns, quiet, missed>>

\* the handler without its test of the ticket's tags: all requested tags are sent
absent_tags_unfiltered(tags, ticket) == tags

\* the tags of the call: those asked for that the ticket lacks
absent_tags(tags, ticket) == tags \ ticket.tags

\* the tags of the call: those asked for that the ticket has
present_tags(tags, ticket) == tags \cap ticket.tags

handle_add_ticket_tags ==
    /\ Runs("add_ticket_tags")
    /\ LET id == ctx.ticket.id
           absent == absent_tags(CurrentAction.tags, ctx.ticket)
       IN  IF absent # {}
           THEN /\ tickets' = [tickets EXCEPT ![id].tags = @ \cup absent]
                /\ ctx' = [ctx EXCEPT !.ticket = TicketSnapshot(tickets'[id])]
                /\ obs' = Obs("add_tags")
           ELSE /\ UNCHANGED <<tickets, ctx>>
                /\ obs' = Obs("none")
    /\ onceRuns' = OnceRunsAfter(FALSE, FALSE)
    /\ loc' = [loc EXCEPT !.ai = @ + 1]
    /\ pc' = pc
    /\ UNCHANGED <<issue, redis, cfg, env, interrupts, lastRun, escRuns, quiet, missed, aborted>>

handle_remove_ticket_tags ==
    /\ Runs("remove_ticket_tags")
    /\ LET id == ctx.ticket.id
           present == present_tags(CurrentAction.tags, ctx.ticket)
       IN  IF present # {}
           THEN /\ tickets' = [tickets EXCEPT ![id].tags = @ \ present]
                /\ ctx' = [ctx EXCEPT !.ticket = TicketSnapshot(tickets'[id])]
                /\ obs' = Obs("remove_tags")
           ELSE /\ UNCHANGED <<tickets, ctx>>
                /\ obs' = Obs("none")
    /\ onceRuns' = OnceRunsAfter(FALSE, FALSE)
    /\ loc' = [loc EXCEPT !.ai = @ + 1]
    /\ pc' = pc
    /\ UNCHANGED <<issue, redis, cfg, env, interrupts, lastRun, escRuns, quiet, missed, aborted>>

\* redis.set('last_seen_jira_status:..', ctx.issue.fields.status.name)
persist_jira_status ==
    /\ pc = "persist_jira_status"
    /\ redis' = [redis EXCEPT !.last_seen_jira_status = RedisStr(ctx.issue.status)]
    /\ pc' = "persist_zd_status"
    /\ obs' = Obs("none")
    /\ UNCHANGED <<issue, tickets, ctx, loc, cfg, env, interrupts, lastRun, onceRuns, escRuns, quiet, missed, aborted>>

\* the statuses the pass holds, which it writes, are those JIRA and Zendesk hold
WritesCurrentStatuses ==
    /\ ctx.issue.status = issue.status
    /\ ctx.ticket.status = tickets[ctx.ticket.id].status

\* redis.set('last_seen_zd_status:..', ctx.ticket.status)
persist_zd_status ==
    /\ pc = "persist_zd_status"
    /\ redis' = [redis EXCEPT !.last_seen_zd_status =
                    RedisSet(@, ctx.ticket.id, ctx.ticket.status)]
    /\ pc' = "done"
    /\ obs' = Obs("none")
    /\ aborted' = IF WritesCurrentStatuses
                  THEN aborted \cup {[side |-> sd, ticket |-> ctx.ticket.id] : sd \in loc.cut}
                  ELSE aborted
    /\ UNCHANGED <<issue, tickets, ctx, loc, cfg, env, interrupts, lastRun, onceRuns, escRuns, quiet, missed>>

\* sync_issue returns: the context is dropped
sync_issue_return ==
    /\ pc = "done"
    /\ pc' = "idle"
    /\ ctx' = NoCtx
    /\ loc' = LocInit
    /\ obs' = Obs("none")
    /\ UNCHANGED <<issue, tickets, redis, cfg, env, interrupts, lastRun, onceRuns, escRuns>>
    /\ quiet' = TRUE
    /\ missed' = missed
    /\ aborted' = aborted

\* sync_issue with a try around each call: after an error the next step is run
after_step_error_next_step(p) ==
    IF p = "ref" THEN "prio"
    ELSE IF p = "prio" THEN "assignee"
    ELSE IF p \in {"assignee", "escalate", "post_escalation",
                   "persist_assignee", "persist_group"} THEN "zd2jira"
    ELSE IF p \in {"zd2jira", "zd_comment", "zd_comment_seen"} THEN "jira_comment"
    ELSE IF p \in {"jira_comment", "jira_comment_seen"} THEN "status"
    ELSE "idle"

\* what a step raises leaves sync_issue and is caught in sync: the pass is over
after_step_error(p) == "idle"

\* a pass ends between two of its steps: an outbound call raises and sync's
\* except clause logs it, or the process is stopped and started again
interrupt ==
    /\ pc \notin {"idle", "done"}
    /\ interrupts < MaxInterrupts
    /\ interrupts' = interrupts + 1
    /\ pc' = after_step_error(pc)
    /\ ctx' = NoCtx
    /\ loc' = LocInit
    /\ obs' = Obs("none")
    /\ UNCHANGED <<issue, tickets, redis, cfg, env, lastRun, onceRuns, escRuns>>
    /\ quiet' = FALSE
    /\ missed' = missed
    /\ aborted' = aborted

----------------------------------------------------------------------------
(* People, between passes: what the acceptance test's step actions do *)

Acts == pc = "idle" /\ env < MaxEnv

handle_assign_issue ==
    /\ Acts
    /\ \E a \in ({NoAssignee, jira_identity} \cup JiraPeople) \ {issue.assignee} :
         issue' = [issue EXCEPT !.assignee = a]
    /\ env' = env + 1
    /\ obs' = Obs("none")
    /\ escRuns' = 0
    /\ UNCHANGED <<tickets, redis, ctx, pc, loc, cfg, interrupts, lastRun, onceRuns>>
    /\ quiet' = FALSE
    /\ missed' = missed
    /\ aborted' = aborted

human_transition_issue ==
    /\ Acts
    /\ \E name \in DOMAIN transitions(issue.status) :
         issue' = [issue EXCEPT !.status = transitions(issue.status)[name]]
    /\ onceRuns' = [onceRuns EXCEPT !.jira = 0]
    /\ env' = env + 1
    /\ obs' = Obs("none")
    /\ escRuns' = 0
    /\ UNCHANGED <<tickets, redis, ctx, pc, loc, cfg, interrupts, lastRun>>
    /\ quiet' = FALSE
    /\ missed' = missed
    /\ aborted' = {}

handle_add_issue_comment ==
    /\ Acts
    /\ Cardinality(HumanJiraComments) < MaxComments
    /\ \E who \in JiraPeople :
         issue' = [issue EXCEPT !.comments =
                      Append(@, [id |-> NextJiraCommentId, author |-> who,
                                 public |-> TRUE, src |-> 0])]
    /\ env' = env + 1
    /\ obs' = Obs("none")
    /\ escRuns' = 0
    /\ UNCHANGED <<tickets, redis, ctx, pc, loc, cfg, interrupts, lastRun, onceRuns>>
    /\ quiet' = FALSE
    /\ missed' = missed
    /\ aborted' = aborted

ZdPeople == {"agent"}

OpenTickets == {t \in DOMAIN tickets : tickets[t].status # "closed"}

handle_add_ticket_comment ==
    /\ Acts
    /\ \E t \in OpenTickets, who \in ZdPeople, public \in BOOLEAN :
         /\ Cardinality(UNION {HumanZdComments(u) : u \in DOMAIN tickets}) < MaxComments
         /\ tickets' = [tickets EXCEPT ![t].comments =
                           Append(@, [id |-> NextZdCommentId, author |-> who,
                                      public |-> public, src |-> 0])]
    /\ env' = env + 1
    /\ obs' = Obs("none")
    /\ escRuns' = 0
    /\ UNCHANGED <<issue, redis, ctx, pc, loc, cfg, interrupts, lastRun, onceRuns>>
    /\ quiet' = FALSE
    /\ missed' = missed
    /\ aborted' = aborted

\* an agent moves the ticket to another group
human_update_ticket_group ==
    /\ Acts
    /\ \E t \in OpenTickets, g \in GroupIds :
         /\ g # tickets[t].group_id
         /\ tickets' = [tickets EXCEPT ![t] = ticket_update(@, [group_id |-> g])]
         /\ missed' = missed \ {t}
         /\ aborted' = aborted
    /\ env' = env + 1
    /\ obs' = Obs("none")
    /\ escRuns' = 0
    /\ UNCHANGED <<issue, redis, ctx, pc, loc, cfg, interrupts, lastRun, onceRuns>>
    /\ quiet' = FALSE

\* an agent opens or solves the ticket; Zendesk closes a solved ticket
human_update_ticket_status ==
    /\ Acts
    /\ \E t \in OpenTickets, s \in {"open", "solved", "closed"} :
         /\ s # tickets[t].status
         /\ s = "closed" => tickets[t].status = "solved"
         /\ tickets' = [tickets EXCEPT ![t] = ticket_update(@, [status |-> s])]
    /\ onceRuns' = [onceRuns EXCEPT !.zd = 0]
    /\ env' = env + 1
    /\ obs' = Obs("none")
    /\ escRuns' = 0
    /\ UNCHANGED <<issue, redis, ctx, pc, loc, cfg, interrupts, lastRun>>
    /\ quiet' = FALSE
    /\ missed' = missed
    /\ aborted' = {}

----------------------------------------------------------------------------

Next ==
    \/ sync
    \/ ensure_ticket_if_eligible
    \/ create_ticket
    \/ create_followup_ticket
    \/ cache_ticket
    \/ sync_jira_reference
    \/ sync_priority
    \/ sync_assignee
    \/ handle_escalation
    \/ post_escalation
    \/ persist_assignee
    \/ persist_group
    \/ sync_zd_comments_to_jira
    \/ zd_comment
    \/ zd_comment_seen
    \/ jira_comment
    \/ jira_comment_seen
    \/ sync_status
    \/ process_status_actions
    \/ action_def_done
    \/ skip_only_once
    \/ handle_update_ticket
    \/ handle_transition_issue
    \/ handle_add_ticket_tags
    \/ handle_remove_ticket_tags
    \/ persist_jira_status
    \/ persist_zd_status
    \/ sync_issue_return
    \/ interrupt
    \/ handle_assign_issue
    \/ human_transition_issue
    \/ handle_add_issue_comment
    \/ handle_add_ticket_comment
    \/ human_update_ticket_group
    \/ human_update_ticket_status

Spec == Init /\ [][Next]_vars

RulesSpec == RulesInit /\ [][Next]_vars

PrioSpec == PrioInit /\ [][Next]_vars

\* someone assigns or unassigns the issue in JIRA while a pass is running: the
\* pass sees it at its next refresh_issue
assign_issue_during_pass ==
    /\ pc # "idle"
    /\ env < MaxEnv
    /\ \E a \in ({NoAssignee, jira_identity} \cup JiraPeople) \ {issue.assignee} :
         issue' = [issue EXCEPT !.assignee = a]
    /\ env' = env + 1
    /\ obs' = Obs("none")
    /\ escRuns' = 0
    /\ quiet' = FALSE
    /\ UNCHANGED <<tickets, redis, ctx, pc, loc, cfg, interrupts, lastRun, onceRuns,
                   missed, aborted>>

RaceNext ==
    \/ Next
    \/ assign_issue_during_pass

\* people act between the passes and during them
RaceSpec == RaceInit /\ [][RaceNext]_vars

----------------------------------------------------------------------------
(* Bridge.sync over several issues, and sync_issue run by several workers.     *)
(* Here issue maps an issue key to the issue, the redis keys are tables by     *)
(* issue key or ticket id, and pc, loc and ctx map a worker to its position,   *)
(* its locals and its SyncContext. The bridge is configured without status     *)
(* actions and every issue has its open ticket in the support group. lastRun   *)
(* keeps the issues, tickets and redis keys as they were before the workers    *)
(* started; interrupts counts the calls of sync_issue that raised.             *)

IssueKeys == <<"JZB-1", "JZB-2">>

KeySet == {IssueKeys[i] : i \in DOMAIN IssueKeys}

\* how many of a side's comments came before those of the i-th issue or ticket
RECURSIVE CountBefore(_, _)
CountBefore(n, i) == IF i <= 1 THEN 0 ELSE n[i - 1] + CountBefore(n, i - 1)

HumanComments(first_id, n, who) ==
    [j \in 1..n |-> [id |-> first_id + j - 1, author |-> who, public |-> TRUE, src |-> 0]]

TicketOf(i, nz) ==
    [id |-> i, status |-> "new", priority |-> "", group_id |-> zd_support_group.id,
     external_id |-> IssueKeys[i], via_followup_source_id |-> 0, tags |-> {},
     comments |->
        << [id |-> CountBefore(nz, i) + i, author |-> zd_identity, public |-> TRUE, src |-> 0] >>
        \o HumanComments(CountBefore(nz, i) + i + 1, nz[i], "agent")]

IssueOf(i, nj) ==
    [key |-> IssueKeys[i], status |-> "Open", assignee |-> jira_identity,
     priority |-> "Major", ref |-> <<>>,
     comments |-> HumanComments(CountBefore(nj, i) + 1, nj[i], "alice")]

\* the first comment of a person in each list, when there is one
FirstHuman(comments, bot) ==
    LET hs == {j \in DOMAIN comments : comments[j].author # bot}
    IN  IF hs = {} THEN {} ELSE {comments[CHOOSE j \in hs : \A h \in hs : j <= h].id}

WorkerLocInit(todo) ==
    [todo |-> todo, result |-> <<>>, i |-> 0, key |-> "", invoked |-> <<>>, failed |-> {},
     clist |-> <<>>, ci |-> 0, changed |-> FALSE, seen_read |-> {}]

\* the state before any worker starts: who works on which issues is todo
WorkersInit(todo) ==
    /\ cfg = "none"
    /\ \E nz \in [DOMAIN IssueKeys -> 0..MaxWorkerComments],
          nj \in [DOMAIN IssueKeys -> 0..MaxWorkerComments],
          old \in BOOLEAN, cached \in BOOLEAN :
         /\ tickets = [i \in DOMAIN IssueKeys |-> TicketOf(i, nz)]
         /\ issue = [k \in KeySet |->
                        IssueOf(CHOOSE i \in DOMAIN IssueKeys : IssueKeys[i] = k, nj)]
         /\ redis = [zd_ticket |-> IF cached
                                   THEN [k \in KeySet |->
                                           CHOOSE i \in DOMAIN IssueKeys : IssueKeys[i] = k]
                                   ELSE <<>>,
                     last_seen_jira_assignee |-> <<>>,
                     last_seen_zd_group |-> <<>>,
                     last_seen_jira_status |-> <<>>,
                     last_seen_zd_status |-> <<>>,
                     seen_zd_comments |->
                        IF old
                        THEN UNION {FirstHuman(TicketOf(i, nz).comments, zd_identity) :
                                       i \in DOMAIN IssueKeys}
                        ELSE {},
                     seen_jira_comments |->
                        IF old
                        THEN UNION {FirstHuman(IssueOf(i, nj).comments, jira_identity) :
                                       i \in DOMAIN IssueKeys}
                        ELSE {}]
    /\ lastRun = [issue |-> issue, tickets |-> tickets, redis |-> redis]
    /\ pc = [w \in DOMAIN todo |-> "idle"]
    /\ loc = [w \in DOMAIN todo |-> WorkerLocInit(todo[w])]
    /\ ctx = [w \in DOMAIN todo |-> NoCtx]
    /\ env = 0
    /\ interrupts = 0
    /\ obs = Obs("none")
    /\ onceRuns = [jira |-> 0, zd |-> 0]
    /\ escRuns = 0
    /\ quiet = FALSE
    /\ missed = {}
    /\ aborted = {}

WorkerFrame == UNCHANGED <<cfg, env, obs, lastRun, onceRuns, escRuns, quiet, missed, aborted>>

\* jira_client.search_issues(jql): the issues as they are when the query runs
worker_sync(w) ==
    /\ pc[w] = "idle"
    /\ loc' = [loc EXCEPT ![w].result = [j \in DOMAIN loc[w].todo |-> issue[loc[w].todo[j]]],
                          ![w].i = 1]
    /\ pc' = [pc EXCEPT ![w] = "loop"]
    /\ UNCHANGED <<issue, tickets, redis, ctx, interrupts>>
    /\ WorkerFrame

\* for issue in ...: self.sync_issue(SyncContext(issue))
worker_sync_issue(w) ==
    /\ pc[w] = "loop"
    /\ IF loc[w].i > Len(loc[w].result)
       THEN /\ pc' = [pc EXCEPT ![w] = "end"]
            /\ UNCHANGED <<loc, ctx>>
       ELSE /\ pc' = [pc EXCEPT ![w] = "ensure"]
            /\ loc' = [loc EXCEPT ![w].key = loc[w].result[loc[w].i].key,
                                  ![w].invoked = Append(@, loc[w].result[loc[w].i].key)]
            /\ ctx' = [ctx EXCEPT ![w] = [issue |-> loc[w].result[loc[w].i],
                                          ticket |-> NoTicket]]
    /\ UNCHANGED <<issue, tickets, redis, interrupts>>
    /\ WorkerFrame

\* sync without its except clause: what sync_issue raises ends the for loop
index_past_result(i, n) == n + 1

\* the index of the loop after sync_issue raised: the except clause logs, and the
\* for loop goes on
index_after_raise(i, n) == i + 1

\* the index of the loop after sync_issue returned
index_after_return(i) == i + 1

worker_ensure_ticket(w) ==
    /\ pc[w] = "ensure"
    /\ LET found == lookup_ticket(RedisGet(redis.zd_ticket, loc[w].key), loc[w].key)
           eligible == is_issue_eligible(ctx[w].issue.status, ctx[w].issue.assignee)
           outcome == IF needs_new_ticket(found) THEN ensure_outcome(found, eligible) ELSE "use"
       IN  IF outcome = "use"
           THEN /\ ctx' = [ctx EXCEPT ![w].ticket = TicketSnapshot(tickets[found])]
                /\ pc' = [pc EXCEPT ![w] = "cache"]
                /\ loc' = loc
           ELSE /\ ctx' = [ctx EXCEPT ![w] = NoCtx]
                /\ pc' = [pc EXCEPT ![w] = "loop"]
                /\ loc' = [loc EXCEPT ![w].i = index_after_return(@)]
    /\ UNCHANGED <<issue, tickets, redis, interrupts>>
    /\ WorkerFrame

worker_cache_ticket(w) ==
    /\ pc[w] = "cache"
    /\ redis' = [redis EXCEPT !.zd_ticket = RedisSet(@, loc[w].key, ctx[w].ticket.id)]
    /\ pc' = [pc EXCEPT ![w] = "ref"]
    /\ UNCHANGED <<issue, tickets, ctx, loc, interrupts>>
    /\ WorkerFrame

worker_sync_jira_reference(w) ==
    /\ pc[w] = "ref"
    /\ IF jira_reference_field /\ reference_differs(ctx[w].issue.ref, ctx[w].ticket)
       THEN /\ issue' = [issue EXCEPT ![loc[w].key].ref = ticket_id_str(ctx[w].ticket)]
            /\ ctx' = [ctx EXCEPT ![w].issue = issue'[loc[w].key]]
       ELSE UNCHANGED <<issue, ctx>>
    /\ pc' = [pc EXCEPT ![w] = "prio"]
    /\ UNCHANGED <<tickets, redis, loc, interrupts>>
    /\ WorkerFrame

worker_sync_priority(w) ==
    /\ pc[w] = "prio"
    /\ LET zd_priority == mapped_priority(ctx[w].issue.priority)
           id == ctx[w].ticket.id
       IN  IF ctx[w].ticket.priority # zd_priority
           THEN /\ tickets' = [tickets EXCEPT ![id] = ticket_update(@, [priority |-> zd_priority])]
                /\ ctx' = [ctx EXCEPT ![w].ticket = TicketSnapshot(tickets'[id])]
           ELSE UNCHANGED <<tickets, ctx>>
    /\ pc' = [pc EXCEPT ![w] = "assignee"]
    /\ UNCHANGED <<issue, redis, loc, interrupts>>
    /\ WorkerFrame

\* the issue is the bot's and the ticket in the support group: no branch of
\* sync_assignee writes to either, and the two last-seen keys are set
worker_sync_assignee(w) ==
    /\ pc[w] = "assignee"
    /\ assignee_branch(ctx[w].issue.assignee, ctx[w].ticket.group_id,
                       RedisGet(redis.last_seen_jira_assignee, loc[w].key),
                       RedisGet(redis.last_seen_zd_group, ctx[w].ticket.id))
          = "assignee_changed"
    /\ ctx[w].issue.assignee = jira_identity
    /\ ctx[w].ticket.group_id = zd_support_group.id
    /\ redis' = [redis EXCEPT !.last_seen_jira_assignee =
                    RedisSet(@, loc[w].key, ctx[w].issue.assignee)]
    /\ pc' = [pc EXCEPT ![w] = "persist_group"]
    /\ UNCHANGED <<issue, tickets, ctx, loc, interrupts>>
    /\ WorkerFrame

worker_persist_group(w) ==
    /\ pc[w] = "persist_group"
    /\ redis' = [redis EXCEPT !.last_seen_zd_group =
                    RedisSet(@, ctx[w].ticket.id, ctx[w].ticket.group_id)]
    /\ loc' = [loc EXCEPT ![w].clist = ticket_comments(tickets[ctx[w].ticket.id]),
                          ![w].ci = 1, ![w].changed = FALSE]
    /\ pc' = [pc EXCEPT ![w] = "zd_comment"]
    /\ UNCHANGED <<issue, tickets, ctx, interrupts>>
    /\ WorkerFrame

\* the ids of all comments on all issues: JIRA numbers comments across issues
AllJiraCommentIds ==
    UNION {{issue[k].comments[j].id : j \in DOMAIN issue[k].comments} : k \in DOMAIN issue}

\* one turn of the loop of sync_zd_comments_to_jira up to add_comment
worker_zd_comment(w) ==
    /\ pc[w] = "zd_comment"
    /\ LET l == loc[w]
           k == l.key
       IN  IF l.ci > Len(l.clist)
           THEN /\ ctx' = IF l.changed THEN [ctx EXCEPT ![w].issue = issue[k]] ELSE ctx
                /\ loc' = [loc EXCEPT ![w].ci = 1]
                /\ pc' = [pc EXCEPT ![w] = "jira_comment"]
                /\ issue' = issue
           ELSE IF zd_comment_skipped(l.clist[l.ci], redis.seen_zd_comments)
                THEN /\ loc' = [loc EXCEPT ![w].ci = @ + 1]
                     /\ UNCHANGED <<issue, ctx, pc>>
                ELSE /\ issue' = [issue EXCEPT ![k].comments =
                                     Append(@, rendered_comment(
                                                  Cardinality(AllJiraCommentIds) + 1,
                                                  jira_identity, l.clist[l.ci]))]
                     /\ loc' = [loc EXCEPT ![w].seen_read = redis.seen_zd_comments]
                     /\ pc' = [pc EXCEPT ![w] = "zd_comment_seen"]
                     /\ ctx' = ctx
    /\ UNCHANGED <<tickets, redis, interrupts>>
    /\ WorkerFrame

\* SADD done as a read of the set and a write of the set read with the member added
sadd_read_then_write(members, read_before, member) == read_before \cup {member}

\* redis.sadd(key, member): one command, which redis runs on the set as it is
sadd(members, read_before, member) == members \cup {member}

worker_zd_comment_seen(w) ==
    /\ pc[w] = "zd_comment_seen"
    /\ redis' = [redis EXCEPT !.seen_zd_comments =
                    sadd(@, loc[w].seen_read, loc[w].clist[loc[w].ci].id)]
    /\ loc' = [loc EXCEPT ![w].ci = @ + 1, ![w].changed = TRUE]
    /\ pc' = [pc EXCEPT ![w] = "zd_comment"]
    /\ UNCHANGED <<issue, tickets, ctx, interrupts>>
    /\ WorkerFrame

\* one turn of the loop of sync_jira_comments_to_zd up to ticket.update
worker_jira_comment(w) ==
    /\ pc[w] = "jira_comment"
    /\ LET l == loc[w]
           comments == ctx[w].issue.comments
       IN  IF l.ci > Len(comments)
           THEN /\ pc' = [pc EXCEPT ![w] = "persist_jira_status"]
                /\ UNCHANGED <<tickets, loc>>
           ELSE IF jira_comment_skipped(comments[l.ci], redis.seen_jira_comments)
                THEN /\ loc' = [loc EXCEPT ![w].ci = @ + 1]
                     /\ UNCHANGED <<tickets, pc>>
                ELSE /\ tickets' = [tickets EXCEPT ![ctx[w].ticket.id] =
                                       ticket_add_comment(@, comments[l.ci])]
                     /\ loc' = [loc EXCEPT ![w].seen_read = redis.seen_jira_comments]
                     /\ pc' = [pc EXCEPT ![w] = "jira_comment_seen"]
    /\ UNCHANGED <<issue, redis, ctx, interrupts>>
    /\ WorkerFrame

worker_jira_comment_seen(w) ==
    /\ pc[w] = "jira_comment_seen"
    /\ redis' = [redis EXCEPT !.seen_jira_comments =
                    sadd(@, loc[w].seen_read, ctx[w].issue.comments[loc[w].ci].id)]
    /\ loc' = [loc EXCEPT ![w].ci = @ + 1]
    /\ pc' = [pc EXCEPT ![w] = "jira_comment"]
    /\ UNCHANGED <<issue, tickets, ctx, interrupts>>
    /\ WorkerFrame

\* sync_status with empty tables: the two last-seen writes
worker_persist_jira_status(w) ==
    /\ pc[w] = "persist_jira_status"
    /\ redis' = [redis EXCEPT !.last_seen_jira_status =
                    RedisSet(@, loc[w].key, ctx[w].issue.status)]
    /\ pc' = [pc EXCEPT ![w] = "persist_zd_status"]
    /\ UNCHANGED <<issue, tickets, ctx, loc, interrupts>>
    /\ WorkerFrame

worker_persist_zd_status(w) ==
    /\ pc[w] = "persist_zd_status"
    /\ redis' = [redis EXCEPT !.last_seen_zd_status =
                    RedisSet(@, ctx[w].ticket.id, ctx[w].ticket.status)]
    /\ pc' = [pc EXCEPT ![w] = "loop"]
    /\ loc' = [loc EXCEPT ![w].i = index_after_return(@)]
    /\ ctx' = [ctx EXCEPT ![w] = NoCtx]
    /\ UNCHANGED <<issue, tickets, interrupts>>
    /\ WorkerFrame

\* a call of a step of sync_issue raises: except: LOG.exception(...)
worker_raise(w) ==
    /\ pc[w] \notin {"idle", "loop", "end"}
    /\ interrupts < MaxInterrupts
    /\ interrupts' = interrupts + 1
    /\ loc' = [loc EXCEPT ![w].failed = @ \cup {loc[w].key},
                          ![w].i = index_after_raise(@, Len(loc[w].result))]
    /\ pc' = [pc EXCEPT ![w] = "loop"]
    /\ ctx' = [ctx EXCEPT ![w] = NoCtx]
    /\ UNCHANGED <<issue, tickets, redis>>
    /\ WorkerFrame

\* Bridge.sync: one worker, the query returning both issues; a step may raise
SyncInit == WorkersInit(<< IssueKeys >>)

SyncNext ==
    \/ \E w \in DOMAIN pc : worker_sync(w)
    \/ \E w \in DOMAIN pc : worker_sync_issue(w)
    \/ \E w \in DOMAIN pc : worker_ensure_ticket(w)
    \/ \E w \in DOMAIN pc : worker_cache_ticket(w)
    \/ \E w \in DOMAIN pc : worker_sync_jira_reference(w)
    \/ \E w \in DOMAIN pc : worker_sync_priority(w)
    \/ \E w \in DOMAIN pc : worker_sync_assignee(w)
    \/ \E w \in DOMAIN pc : worker_persist_group(w)
    \/ \E w \in DOMAIN pc : worker_zd_comment(w)
    \/ \E w \in DOMAIN pc : worker_zd_comment_seen(w)
    \/ \E w \in DOMAIN pc : worker_jira_comment(w)
    \/ \E w \in DOMAIN pc : worker_jira_comment_seen(w)
    \/ \E w \in DOMAIN pc : worker_persist_jira_status(w)
    \/ \E w \in DOMAIN pc : worker_persist_zd_status(w)
    \/ \E w \in DOMAIN pc : worker_raise(w)

SyncSpec == SyncInit /\ [][SyncNext]_vars

\* two workers, each running sync_issue on its own issue
ParInit == WorkersInit([i \in DOMAIN IssueKeys |-> << IssueKeys[i] >>])

ParNext ==
    \/ \E w \in DOMAIN pc : worker_sync(w)
    \/ \E w \in DOMAIN pc : worker_sync_issue(w)
    \/ \E w \in DOMAIN pc : worker_ensure_ticket(w)
    \/ \E w \in DOMAIN pc : worker_cache_ticket(w)
    \/ \E w \in DOMAIN pc : worker_sync_jira_reference(w)
    \/ \E w \in DOMAIN pc : worker_sync_priority(w)
    \/ \E w \in DOMAIN pc : worker_sync_assignee(w)
    \/ \E w \in DOMAIN pc : worker_persist_group(w)
    \/ \E w \in DOMAIN pc : worker_zd_comment(w)
    \/ \E w \in DOMAIN pc : worker_zd_comment_seen(w)
    \/ \E w \in DOMAIN pc : worker_jira_comment(w)
    \/ \E w \in DOMAIN pc : worker_jira_comment_seen(w)
    \/ \E w \in DOMAIN pc : worker_persist_jira_status(w)
    \/ \E w \in DOMAIN pc : worker_persist_zd_status(w)

ParSpec == ParInit /\ [][ParNext]_vars

----------------------------------------------------------------------------
(* The claims *)

\* the copies the bridge appended to the issue of a ticket comment
CopiesInJira(c) ==
    {i \in DOMAIN issue.comments :
        issue.comments[i].author = jira_identity /\ issue.comments[i].src = c.id}

\* the copies the bridge appended to a ticket of an issue comment
CopiesInZd(c) ==
    {d \in AllZdComments : d.author = zd_identity /\ d.src = c.id}

\* the ticket comments sync_zd_comments_to_jira is to copy
QualifyingZdComments == {c \in AllZdComments : c.public /\ c.author # zd_identity}

IsQualifyingZd(c) == c.public /\ c.author # zd_identity

AfterCommentSteps ==
    pc \in {"status", "rules", "action", "persist_jira_status", "persist_zd_status", "done"}

\* C1: when both comment steps ran to completion over an issue/ticket pair and run
\* again over the same pair with the comments of people unchanged, the second run
\* appends no comment to the issue or the ticket and adds nothing to a seen set.
C1_SecondRunCopiesNothing == ~loc.rerunWrote

\* C1's case: a second run over unchanged comments, with a public comment of an
\* agent on the ticket and a comment of a person on the issue, has just ended.
C1_Witness ==
    /\ pc = "status"
    /\ loc.rerun
    /\ \E c \in lastRun[1].zd : c.public
    /\ lastRun[1].jira # {}

\* C2: over passes that all ran to completion, with people commenting between
\* passes, no comment of a person is copied twice, and once a pass is past its
\* comment steps every qualifying comment it read has exactly one copy on the
\* other side.
C2_CopiedExactlyOnce ==
    interrupts = 0 =>
        /\ \A c \in QualifyingZdComments : Cardinality(CopiesInJira(c)) <= 1
        /\ \A c \in HumanJiraComments : Cardinality(CopiesInZd(c)) <= 1
        /\ AfterCommentSteps =>
              /\ \A i \in DOMAIN loc.clist :
                    IsQualifyingZd(loc.clist[i]) =>
                        Cardinality(CopiesInJira(loc.clist[i])) = 1
              /\ \A i \in DOMAIN ctx.issue.comments :
                    ctx.issue.comments[i].author # jira_identity =>
                        Cardinality(CopiesInZd(ctx.issue.comments[i])) = 1

\* C2's case: a pass has run to completion, no pass was ever interrupted, and a
\* comment of each side has its copy on the other side.
C2_Witness ==
    /\ pc = "done"
    /\ interrupts = 0
    /\ \E c \in QualifyingZdComments : Cardinality(CopiesInJira(c)) = 1
    /\ \E c \in HumanJiraComments : Cardinality(CopiesInZd(c)) = 1

\* C3: also when passes are interrupted, nothing a pass applied to a remote system
\* is applied again: no comment is copied twice, no second first ticket is
\* created and no closed ticket gets a second followup.
C3_NoReplayAfterInterrupt ==
    /\ \A c \in QualifyingZdComments : Cardinality(CopiesInJira(c)) <= 1
    /\ \A c \in HumanJiraComments : Cardinality(CopiesInZd(c)) <= 1
    /\ \A p \in {0} \cup DOMAIN tickets :
          Cardinality({t \in DOMAIN tickets : tickets[t].via_followup_source_id = p}) <= 1

\* C4: a ticket is created only when neither the cache nor the search yields one
\* or the one found is closed, and so at most one ticket that is not closed ever
\* carries the issue key as its external id.
C4_AtMostOneOpenTicket ==
    /\ pc = "create" => redis.zd_ticket = <<>> /\ find_first(issue.key) = 0
    /\ pc = "followup" => tickets[loc.found].status = "closed"
    /\ Cardinality({t \in OpenTickets : tickets[t].external_id = issue.key}) <= 1

\* C5: is_issue_eligible is false for every solved status whatever the assignee,
\* true for a status that is not solved when the issue is unassigned or assigned
\* to the bot, and false for such a status when it is assigned to anyone else.
C5_Eligibility ==
    obs.elig # <<>> =>
        LET e == obs.elig[1]
        IN  /\ e.status \in jira_solved_statuses => ~e.result
            /\ (e.status \notin jira_solved_statuses
                   /\ e.assignee \in {NoAssignee, jira_identity}) => e.result
            /\ (e.status \notin jira_solved_statuses
                   /\ e.assignee \notin {NoAssignee, jira_identity}) => ~e.result

\* C5's case: eligibility was just decided for an open issue assigned to a person.
C5_Witness ==
    /\ obs.elig # <<>>
    /\ obs.elig[1].status \notin jira_solved_statuses
    /\ obs.elig[1].assignee \in JiraPeople
    /\ ~obs.elig[1].result

ZdStatuses == {"new", "open", "solved", "closed"}

\* the statuses a rule's actions leave, and whether a handler raised
RECURSIVE StatusesAfter(_, _, _, _, _)
StatusesAfter(actions, k, jira_status, zd_status, changed) ==
    IF k > Len(actions)
    THEN [jira_status |-> jira_status, zd_status |-> zd_status, raised |-> FALSE]
    ELSE IF only_once_skipped(actions[k], changed)
         THEN StatusesAfter(actions, k + 1, jira_status, zd_status, changed)
    ELSE IF actions[k].type = "update_ticket"
         THEN StatusesAfter(actions, k + 1, jira_status, actions[k].status, changed)
    ELSE IF actions[k].type = "transition_issue"
         THEN IF actions[k].name \in DOMAIN transitions(jira_status)
              THEN StatusesAfter(actions, k + 1,
                                 transitions(jira_status)[actions[k].name], zd_status, changed)
              ELSE [jira_status |-> jira_status, zd_status |-> zd_status, raised |-> TRUE]
    ELSE StatusesAfter(actions, k + 1, jira_status, zd_status, changed)

\* whether a rule still matches after n turns of the loop from the given statuses
RECURSIVE StillMatching(_, _, _, _, _, _)
StillMatching(defs, owned, jira_status, zd_status, changed, n) ==
    LET m == first_matching_def(defs, owned, jira_status, zd_status)
    IN  IF m = 0 THEN FALSE
        ELSE IF n = 0 THEN TRUE
        ELSE LET after == StatusesAfter(defs[m].actions, 1, jira_status, zd_status, changed)
             IN  IF after.raised THEN FALSE
                 ELSE StillMatching(defs, owned, after.jira_status, after.zd_status,
                                    changed, n - 1)

\* a table with a cycle of force=true rules: with the issue not owned, when only
\* those rules apply, the loop runs on from some pair of statuses
HasForceCycle(defs) ==
    \E js \in JiraStatuses, zs \in ZdStatuses, changed \in BOOLEAN :
        StillMatching(defs, FALSE, js, zs, changed,
                      Cardinality(JiraStatuses) * Cardinality(ZdStatuses))

\* C6: for a rule table without a cycle of force=true rules, whatever the statuses,
\* owned and changed, process_status_actions matches a rule in no more turns of
\* its loop than the table has rules.
C6_LoopBoundedByRuleCount ==
    (pc \in {"rules", "action"} /\ ~HasForceCycle(action_defs)) =>
        loc.iters <= Len(action_defs)

\* C7: over passes that all ran to completion, an only_once action of a side's
\* table runs no more than once while that side's status stays as it is.
C7_OnlyOnceRunsOnce ==
    interrupts = 0 => onceRuns.jira <= 1 /\ onceRuns.zd <= 1

\* C8: when several escalation definitions match the group's name, only the
\* earliest in configuration order has get_escalation_contact and post_escalation
\* called, and the issue is assigned to its contact.
C8_FirstMatchingStrategyOnly ==
    \A e \in loc.escCalls :
        LET hits == matching_strategy_defs(find_group_by_id(ctx.ticket.group_id).name)
        IN  /\ e.def \in hits
            /\ \A j \in hits : e.def <= j
            /\ issue.assignee = escalation_strategy_defs[e.def].contact

\* C8's case: the group's name matches two definitions and the escalation has
\* run through post_escalation.
C8_Witness ==
    /\ \E e \in loc.escCalls : e.method = "post_escalation"
    /\ Cardinality(matching_strategy_defs(find_group_by_id(ctx.ticket.group_id).name)) >= 2

\* C9: a pass that found no cached id and no ticket for an eligible issue and ran
\* to completion created exactly one ticket, with the issue key as external id,
\* stored its id under the cache key and set the issue's reference field to it.
C9_NewIssueGetsTicket ==
    (pc = "done" /\ loc.fresh) =>
        /\ Len(tickets) = loc.t0 + 1
        /\ tickets[Len(tickets)].external_id = issue.key
        /\ tickets[Len(tickets)].via_followup_source_id = 0
        /\ redis.zd_ticket = <<tickets[Len(tickets)].id>>
        /\ issue.ref = <<tickets[Len(tickets)].id>>
        /\ ctx.ticket.id = tickets[Len(tickets)].id

\* C9's case: such a pass has run to completion.
C9_Witness == pc = "done" /\ loc.fresh /\ loc.t0 = 0

\* C10: when the ticket was found and the issue's reference field already equals
\* its id, sync_jira_reference writes nothing to the issue.
C10_NoReferenceWrite ==
    (pc = "prio" /\ loc.refMatched) => (obs.op = "none" /\ issue.ref = <<ctx.ticket.id>>)

\* C10's case: sync_jira_reference has just run for a ticket the lookup found,
\* with the reference field equal to the ticket's id.
C10_Witness ==
    /\ pc = "prio"
    /\ loc.refMatched
    /\ loc.found = ctx.ticket.id
    /\ obs.op = "none"

\* C11: when sync_jira_reference finds the reference field set to something other
\* than the id of the pass's ticket, it leaves the field as it was (and the pass
\* for the issue ends there).
C11_MismatchedReferenceKept ==
    (pc = "prio" /\ loc.ref0 # <<>> /\ loc.ref0 # <<ctx.ticket.id>>) => issue.ref = loc.ref0

\* eligibility as the documentation of ensure_ticket_if_eligible words it
EligibleAsDocumented(status, assignee) ==
    /\ status \notin jira_solved_statuses
    /\ assignee \in {NoAssignee, jira_identity}

\* the pass found a ticket for the issue, and that ticket is closed
ClosedTicketFound ==
    /\ pc \notin {"idle", "ensure"}
    /\ loc.found # 0
    /\ loc.foundClosed
    /\ tickets[loc.found].status = "closed"

\* C12: when the ticket found for the issue is closed: for an eligible issue one
\* followup ticket of the closed one is created, the pass goes on with it and the
\* cache key is set to its id; for an ineligible issue the pass ends and no ticket
\* is created.
C12_ClosedTicketGetsFollowup ==
    /\ (obs.elig # <<>> /\ obs.elig[1].found # 0) =>
          IF EligibleAsDocumented(obs.elig[1].status, obs.elig[1].assignee)
          THEN pc = "followup" /\ Len(tickets) = loc.t0
          ELSE pc = "idle" /\ tickets = obs.elig[1].pre.tickets
    /\ (ClosedTicketFound /\ pc # "followup") =>
          /\ Len(tickets) = loc.t0 + 1
          /\ ctx.ticket.id = Len(tickets)
          /\ ctx.ticket.id # loc.found
          /\ tickets[ctx.ticket.id].via_followup_source_id = loc.found
          /\ tickets[ctx.ticket.id].status # "closed"
          /\ pc # "cache" => redis.zd_ticket = <<ctx.ticket.id>>

\* C12's case: a pass that found a closed ticket has run to completion.
C12_Witness == pc = "done" /\ ClosedTicketFound

\* C15: when the issue has no ticket, or a closed one, and is ineligible, the pass
\* ends with ensure_ticket_if_eligible: the issue, the tickets and every redis key
\* are as they were before it.
C15_SkipWritesNothing ==
    (obs.elig # <<>>
        /\ ~EligibleAsDocumented(obs.elig[1].status, obs.elig[1].assignee)) =>
       /\ pc = "idle"
       /\ ctx = NoCtx
       /\ issue = obs.elig[1].pre.issue
       /\ tickets = obs.elig[1].pre.tickets
       /\ redis = obs.elig[1].pre.redis

\* C15's case: the skip was just decided for an issue whose ticket is closed and
\* whose redis keys are set.
C15_Witness ==
    /\ obs.elig # <<>>
    /\ ~obs.elig[1].result
    /\ obs.elig[1].found # 0
    /\ redis.zd_ticket # <<>>
    /\ pc = "idle"

\* the pass read a ticket moved, since the last pass, from the support group to a
\* group an escalation pattern matches, and an assignee that is the last one seen
EscalationDue ==
    /\ loc.read # <<>>
    /\ loc.read[1].last_seen_zd_group = <<zd_support_group.id>>
    /\ loc.read[1].group_id # zd_support_group.id
    /\ matching_strategy_defs(find_group_by_id(loc.read[1].group_id).name) # {}
    /\ loc.read[1].last_seen_jira_assignee = <<loc.read[1].assignee>>

\* C13: over passes that all ran to completion, a pass that reads the ticket moved
\* from the support group to an escalation group, the assignee being the one last
\* seen, ends with the issue assigned to the matched strategy's contact and
\* post_escalation called; while people do nothing more, later passes do not call
\* it again.
C13_EscalatesOnce ==
    interrupts = 0 =>
        /\ escRuns <= 1
        /\ (pc = "done" /\ EscalationDue) =>
              /\ escRuns = 1
              /\ [method |-> "post_escalation",
                  def |-> first_matching_strategy(find_group_by_id(loc.read[1].group_id).name)]
                    \in loc.escCalls
              /\ \E d \in matching_strategy_defs(find_group_by_id(loc.read[1].group_id).name) :
                    issue.assignee = escalation_strategy_defs[d].contact

\* C13's case: after the pass that escalated, a following pass has run to
\* completion over the same issue and ticket, nobody having acted in between.
C13_Witness ==
    /\ pc = "done"
    /\ interrupts = 0
    /\ escRuns = 1
    /\ loc.escCalls = {}
    /\ loc.read # <<>>
    /\ loc.read[1].group_id # zd_support_group.id
    /\ loc.read[1].last_seen_zd_group = <<loc.read[1].group_id>>

\* a comment as the bridge wrote it: the id of a copy is the remote system's choice
Content(c) == IF c.src = 0 THEN c ELSE [c EXCEPT !.id = 0]

Contents(comments) == [j \in DOMAIN comments |-> Content(comments[j])]

TicketIdOf(k) == CHOOSE t \in DOMAIN lastRun.tickets : lastRun.tickets[t].external_id = k

\* the comments of a list a pass has to copy, given the seen set before the pass
ToCopy(comments, bot, seen) ==
    LET Qualifies(c) == c.public /\ c.author # bot /\ c.id \notin seen
    IN  SelectSeq(comments, Qualifies)

CopiesOf(comments, bot) ==
    [j \in DOMAIN comments |-> [id |-> 0, author |-> bot, public |-> TRUE,
                                src |-> comments[j].id]]

\* the issue, its ticket and its redis keys are as one pass of sync_issue over the
\* issue alone, from the state before the workers started, leaves them
AsAfterOwnPass(k) ==
    LET t == TicketIdOf(k)
        i0 == lastRun.issue[k]
        t0 == lastRun.tickets[t]
    IN  /\ issue[k].ref = <<t>>
        /\ [issue[k] EXCEPT !.ref = <<>>, !.comments = <<>>]
              = [i0 EXCEPT !.ref = <<>>, !.comments = <<>>]
        /\ Contents(issue[k].comments)
              = i0.comments \o CopiesOf(ToCopy(t0.comments, zd_identity,
                                               lastRun.redis.seen_zd_comments),
                                        jira_identity)
        /\ [tickets[t] EXCEPT !.comments = <<>>]
              = [t0 EXCEPT !.priority = mapped_priority(i0.priority), !.comments = <<>>]
        /\ Contents(tickets[t].comments)
              = t0.comments \o CopiesOf(ToCopy(i0.comments, jira_identity,
                                               lastRun.redis.seen_jira_comments),
                                        zd_identity)
        /\ RedisGet(redis.zd_ticket, k) = <<t>>
        /\ RedisGet(redis.last_seen_jira_assignee, k) = <<i0.assignee>>
        /\ RedisGet(redis.last_seen_zd_group, t) = <<t0.group_id>>
        /\ RedisGet(redis.last_seen_jira_status, k) = <<i0.status>>
        /\ RedisGet(redis.last_seen_zd_status, t) = <<t0.status>>
        /\ {c.id : c \in {t0.comments[j] : j \in DOMAIN t0.comments} \ {c \in {t0.comments[j] : j \in DOMAIN t0.comments} : c.author = zd_identity}}
              \subseteq redis.seen_zd_comments
        /\ {i0.comments[j].id : j \in DOMAIN i0.comments} \subseteq redis.seen_jira_comments

\* the issue, its ticket and its redis keys are as they were before the workers started
Untouched(k) ==
    LET t == TicketIdOf(k)
    IN  /\ issue[k] = lastRun.issue[k]
        /\ tickets[t] = lastRun.tickets[t]
        /\ \A table \in {"zd_ticket", "last_seen_jira_assignee", "last_seen_jira_status"} :
              RedisGet(redis[table], k) = RedisGet(lastRun.redis[table], k)
        /\ \A table \in {"last_seen_zd_group", "last_seen_zd_status"} :
              RedisGet(redis[table], t) = RedisGet(lastRun.redis[table], t)

Invoked(w) == {loc[w].invoked[j] : j \in DOMAIN loc[w].invoked}

\* C14: in one pass of sync, whatever step of sync_issue raises for an issue,
\* sync_issue is called for every issue of the query's result, in its order; an
\* issue whose own call did not raise ends as its own pass alone leaves it, and an
\* issue not yet reached is as it was.
C14_FailureIsolatedPerIssue ==
    \A w \in DOMAIN pc :
        /\ pc[w] = "end" =>
              /\ loc[w].invoked = loc[w].todo
              /\ \A k \in Invoked(w) \ loc[w].failed : AsAfterOwnPass(k)
        /\ \A j \in DOMAIN loc[w].todo :
              loc[w].todo[j] \notin Invoked(w) => Untouched(loc[w].todo[j])
        /\ \A k \in Invoked(w) \ (loc[w].failed \cup {loc[w].key}) : AsAfterOwnPass(k)

\* C14's case: sync_issue raised for the first issue after it had written to it,
\* and the pass has ended with the second issue synced, comments included.
C14_Witness ==
    /\ pc[1] = "end"
    /\ loc[1].failed = {IssueKeys[1]}
    /\ ~Untouched(IssueKeys[1])
    /\ AsAfterOwnPass(IssueKeys[2])
    /\ Len(issue[IssueKeys[2]].comments) > Len(lastRun.issue[IssueKeys[2]].comments)

\* C16: when two workers have each run sync_issue on their own issue, their calls
\* interleaved in any way, both issues, both tickets and all redis keys are as the
\* two passes run one after the other (in either order) leave them.
C16_InterleavingAsSequential ==
    (\A w \in DOMAIN pc : pc[w] = "end") =>
        /\ \A k \in KeySet : AsAfterOwnPass(k)
        /\ redis.seen_zd_comments =
              lastRun.redis.seen_zd_comments
                 \cup {c.id : c \in {d \in AllZdComments : d.src = 0 /\ d.author # zd_identity}}
        /\ redis.seen_jira_comments =
              lastRun.redis.seen_jira_comments
                 \cup UNION {{lastRun.issue[k].comments[j].id :
                                 j \in DOMAIN lastRun.issue[k].comments} : k \in KeySet}

\* C16's case: both workers are through, each copied a comment in each direction,
\* and the worker whose copy reached JIRA first had its copy reach Zendesk last.
C16_Witness ==
    /\ \A w \in DOMAIN pc : pc[w] = "end"
    /\ \A k \in KeySet :
          /\ Len(issue[k].comments) > Len(lastRun.issue[k].comments)
          /\ Len(tickets[TicketIdOf(k)].comments) > Len(lastRun.tickets[TicketIdOf(k)].comments)
    /\ \E k \in KeySet : \E k2 \in KeySet \ {k} :
          /\ \E j \in DOMAIN issue[k].comments : \E j2 \in DOMAIN issue[k2].comments :
                /\ issue[k].comments[j].src # 0
                /\ issue[k2].comments[j2].src # 0
                /\ issue[k2].comments[j2].id < issue[k].comments[j].id
          /\ \E j \in DOMAIN tickets[TicketIdOf(k)].comments :
             \E j2 \in DOMAIN tickets[TicketIdOf(k2)].comments :
                /\ tickets[TicketIdOf(k)].comments[j].src # 0
                /\ tickets[TicketIdOf(k2)].comments[j2].src # 0
                /\ tickets[TicketIdOf(k)].comments[j].id < tickets[TicketIdOf(k2)].comments[j2].id

\* C17: whatever passes ran and wherever they were interrupted, a copy of a
\* comment comes after a copy of every qualifying comment that precedes it in its
\* source: in the issue's comment list for the copies of a ticket's comments, by
\* comment id for the copies of the issue's comments.
C17_CopiesKeepSourceOrder ==
    /\ \A t \in DOMAIN tickets : \A i, j \in DOMAIN tickets[t].comments :
          (i < j /\ IsQualifyingZd(tickets[t].comments[i])
                 /\ IsQualifyingZd(tickets[t].comments[j])) =>
             \A q \in CopiesInJira(tickets[t].comments[j]) :
                \E p \in CopiesInJira(tickets[t].comments[i]) : p < q
    /\ \A i, j \in DOMAIN issue.comments :
          (i < j /\ issue.comments[i].author # jira_identity
                 /\ issue.comments[j].author # jira_identity) =>
             \A d \in CopiesInZd(issue.comments[j]) :
                \E e \in CopiesInZd(issue.comments[i]) : e.id < d.id

\* C17's case: a ticket has two qualifying comments; a pass was interrupted in the
\* comment loop, so that the first has two copies, and the second is copied too.
C17_Witness ==
    /\ interrupts > 0
    /\ \E t \in DOMAIN tickets : \E i, j \in DOMAIN tickets[t].comments :
          /\ i < j
          /\ IsQualifyingZd(tickets[t].comments[i])
          /\ IsQualifyingZd(tickets[t].comments[j])
          /\ Cardinality(CopiesInJira(tickets[t].comments[i])) = 2
          /\ CopiesInJira(tickets[t].comments[j]) # {}

\* the rule at index i applies to the pair of statuses of the context
Applies(i) ==
    /\ loc.owned \/ action_defs[i].force
    /\ ctx.issue.status \in action_defs[i].jira_status
    /\ ctx.ticket.status \in action_defs[i].zd_status

\* C18: when the loop of process_status_actions has picked a rule and none of its
\* actions has run yet, the rule applies (owned or force, both statuses in its
\* sets) and no rule before it in the table does; the actions that run are that
\* rule's, and when the issue is not owned the rule whose actions run has force set.
C18_FirstApplicableRuleRuns ==
    pc = "action" =>
        /\ loc.rule \in DOMAIN action_defs
        /\ ~loc.owned => action_defs[loc.rule].force
        /\ loc.ai = 1 =>
              /\ Applies(loc.rule)
              /\ \A i \in DOMAIN action_defs : i < loc.rule => ~Applies(i)

\* C18's case: two rules of a table apply to the pair of statuses and the first
\* is the one picked.
C18_Witness ==
    /\ pc = "action"
    /\ loc.ai = 1
    /\ \E i \in DOMAIN action_defs : i > loc.rule /\ Applies(i)

\* C18's other case: the issue is not owned, a rule without force has both
\* statuses in its sets, and a later rule with force is the one picked.
C18_NotOwnedReached ==
    /\ pc = "action"
    /\ loc.ai = 1
    /\ ~loc.owned
    /\ \E i \in DOMAIN action_defs :
          /\ i < loc.rule
          /\ ~action_defs[i].force
          /\ ctx.issue.status \in action_defs[i].jira_status
          /\ ctx.ticket.status \in action_defs[i].zd_status

\* C19: once a handler has raised in the tracker-side table, the pass is no longer
\* in that table (no further action, no further scan of it), it is still inside
\* sync_status or has returned from it normally, and by the time the last-seen
\* statuses are written the desk-side table has been scanned.
C19_HandlerErrorEndsTrackerTableOnly ==
    "jira" \in loc.raised =>
        /\ loc.side # "jira"
        /\ pc \in {"rules", "action", "persist_jira_status", "persist_zd_status", "done"}
        /\ pc \in {"rules", "action"} => loc.side = "zd"
        /\ pc \in {"persist_jira_status", "persist_zd_status", "done"} =>
              "zd" \in loc.scanned

\* C19's case: a handler raised in the tracker-side table, a rule of the desk-side
\* table then ran its action, and sync_status went on to its end.
C19_Witness ==
    /\ pc = "done"
    /\ "jira" \in loc.raised
    /\ "zd" \in loc.scanned
    /\ ctx.ticket.status = "solved"
    /\ redis.last_seen_jira_status = RedisStr(ctx.issue.status)

\* what sync_assignee read at its start
AssigneeRead == loc.read[1]

\* C20: of the three corrective actions of sync_assignee (the unassigned issue is
\* assigned to the bot, the ticket is moved to the support group, the issue is
\* assigned to an escalation contact) a pass performs at most one, and which one
\* is decided in that order: with no assignee only the first; with an assignee
\* other than the last one seen only the second; otherwise only the third.
C20_AtMostOneCorrectiveAction ==
    /\ Cardinality(loc.corrective) <= 1
    /\ loc.read = <<>> => loc.corrective = {}
    /\ loc.read # <<>> =>
          IF AssigneeRead.assignee = NoAssignee
          THEN loc.corrective = {"assign_to_bot"}
          ELSE IF RedisStr(AssigneeRead.assignee) # AssigneeRead.last_seen_jira_assignee
          THEN loc.corrective \subseteq {"move_to_support"}
          ELSE /\ loc.corrective \subseteq {"escalate"}
               /\ loc.corrective = {"escalate"} =>
                     /\ RedisStr(AssigneeRead.group_id) # AssigneeRead.last_seen_zd_group
                     /\ AssigneeRead.group_id # zd_support_group.id

\* C20's case: the assignee is not the last one seen and the ticket's group has
\* changed to an escalation group as well; the pass moves the ticket to the
\* support group and does not escalate.
C20_Witness ==
    /\ pc = "zd2jira"
    /\ loc.read # <<>>
    /\ AssigneeRead.assignee # NoAssignee
    /\ AssigneeRead.last_seen_jira_assignee # <<>>
    /\ RedisStr(AssigneeRead.assignee) # AssigneeRead.last_seen_jira_assignee
    /\ AssigneeRead.last_seen_zd_group # <<>>
    /\ RedisStr(AssigneeRead.group_id) # AssigneeRead.last_seen_zd_group
    /\ first_matching_strategy(find_group_by_id(AssigneeRead.group_id).name) # 0
    /\ loc.corrective = {"move_to_support"}

\* C21: right after sync_assignee found an assignee other than the last one seen,
\* the ticket is in the support group by a ticket update when that assignee is the
\* bot and the group read was another one; in every other case no call was made,
\* the ticket's group is the one read, and in both cases the issue keeps the
\* assignee read.
C21_AssigneeChangeMovesTicketOnly ==
    (/\ pc = "persist_assignee"
     /\ loc.read # <<>>
     /\ AssigneeRead.assignee # NoAssignee
     /\ RedisStr(AssigneeRead.assignee) # AssigneeRead.last_seen_jira_assignee) =>
        /\ issue.assignee = AssigneeRead.assignee
        /\ ctx.issue.assignee = AssigneeRead.assignee
        /\ IF /\ AssigneeRead.assignee = jira_identity
              /\ AssigneeRead.group_id # zd_support_group.id
           THEN /\ obs.op = "ticket.update"
                /\ tickets[ctx.ticket.id].group_id = zd_support_group.id
                /\ ctx.ticket.group_id = zd_support_group.id
           ELSE /\ obs.op = "none"
                /\ tickets[ctx.ticket.id].group_id = AssigneeRead.group_id
                /\ ctx.ticket.group_id = AssigneeRead.group_id

\* C21's case: the issue went back to the bot while the ticket sat in an
\* escalation group, and the pass has moved the ticket to the support group.
C21_Witness ==
    /\ pc = "persist_assignee"
    /\ loc.read # <<>>
    /\ AssigneeRead.assignee = jira_identity
    /\ AssigneeRead.last_seen_jira_assignee \notin {<<>>, RedisStr(jira_identity)}
    /\ AssigneeRead.group_id # zd_support_group.id
    /\ tickets[ctx.ticket.id].group_id = zd_support_group.id

\* C21's other case: the new assignee is a person and the ticket is in an
\* escalation group; nothing is done to the ticket.
C21_PersonAssignedReached ==
    /\ pc = "persist_assignee"
    /\ loc.read # <<>>
    /\ AssigneeRead.assignee \notin {NoAssignee, jira_identity}
    /\ RedisStr(AssigneeRead.assignee) # AssigneeRead.last_seen_jira_assignee
    /\ AssigneeRead.group_id # zd_support_group.id
    /\ tickets[ctx.ticket.id].group_id = AssigneeRead.group_id

\* the steps of sync_issue after sync_assignee's redis.set calls
AfterAssigneeSteps ==
    {"zd2jira", "zd_comment", "zd_comment_seen", "jira_comment", "jira_comment_seen",
     "status", "rules", "action", "persist_jira_status", "persist_zd_status", "done"}

\* C22: once the post_escalation hook has raised, the pass is still running: it is
\* at sync_assignee's writes of the last-seen values or at a later step; the issue
\* is assigned to the contact of the matched strategy; after the writes the
\* last-seen assignee is that contact and the last-seen group is the ticket's
\* group; and a pass that ends has been through both status tables.
C22_HookErrorIsSwallowed ==
    loc.hookRaised =>
        /\ pc \in {"persist_assignee", "persist_group"} \cup AfterAssigneeSteps
        /\ loc.strategy \in DOMAIN escalation_strategy_defs
        /\ issue.assignee = escalation_strategy_defs[loc.strategy].contact
        /\ ctx.issue.assignee = issue.assignee
        /\ pc \in AfterAssigneeSteps =>
              /\ redis.last_seen_jira_assignee = RedisStr(issue.assignee)
              /\ RedisGet(redis.last_seen_zd_group, ctx.ticket.id)
                    = RedisStr(AssigneeRead.group_id)
        /\ pc = "done" => loc.scanned = {"jira", "zd"}

\* C22's case: the hook raised, and the pass went on to copy a comment to the
\* issue and reached its end with the contact assigned.
C22_Witness ==
    /\ pc = "done"
    /\ loc.hookRaised
    /\ issue.assignee = escalation_strategy_defs[loc.strategy].contact
    /\ loc.changed

\* sync_assignee read an unchanged assignee and a changed group that is not the
\* support group, and no escalation pattern matches the group's name
UnmatchedGroupChange ==
    /\ loc.read # <<>>
    /\ AssigneeRead.assignee # NoAssignee
    /\ RedisStr(AssigneeRead.assignee) = AssigneeRead.last_seen_jira_assignee
    /\ RedisStr(AssigneeRead.group_id) # AssigneeRead.last_seen_zd_group
    /\ AssigneeRead.group_id # zd_support_group.id
    /\ \A i \in DOMAIN escalation_strategy_defs :
          find_group_by_id(AssigneeRead.group_id).name
              \notin escalation_strategy_defs[i].group_pattern

ConfiguredPriority ==
    IF \E name \in DOMAIN jira_priority_map : name = issue.priority
    THEN jira_priority_map[issue.priority]
    ELSE jira_fallback_priority

\* C24: right after sync_priority the ticket and its snapshot in the context carry
\* the priority the map gives for the issue's priority name, or the fallback
\* priority when the map lacks the name; and the step called ticket.update exactly
\* when the priority the ticket had before the step was another one.
C24_PriorityMappedWithFallback ==
    (pc = "assignee" /\ loc.prio0 # <<>>) =>
        /\ tickets[ctx.ticket.id].priority = ConfiguredPriority
        /\ ctx.ticket.priority = ConfiguredPriority
        /\ (obs.op = "ticket.update") <=> (loc.prio0[1] # ConfiguredPriority)
        /\ obs.op \in {"ticket.update", "none"}

\* C24's case: the issue's priority name is not in the map and the ticket had
\* another priority than the fallback; the step has set the fallback priority.
C24_Witness ==
    /\ pc = "assignee"
    /\ loc.prio0 # <<>>
    /\ issue.priority \notin DOMAIN jira_priority_map
    /\ loc.prio0[1] # jira_fallback_priority
    /\ ctx.ticket.priority = jira_fallback_priority
    /\ obs.op = "ticket.update"

\* C24's other case: the ticket already has the mapped priority and is left alone.
C24_NoUpdateReached ==
    /\ pc = "assignee"
    /\ loc.prio0 = << ConfiguredPriority >>
    /\ obs.op = "none"

----------------------------------------------------------------------------
(* The two tag handlers on their own: a ticket with any tags, a handler with any
   requested tags, applied twice in a row *)

TagNames == {"bridged", "jira_resolved", "vip"}

TagsInit ==
    /\ \E on_ticket \in SUBSET TagNames, requested \in SUBSET TagNames,
          type \in {"add_ticket_tags", "remove_ticket_tags"} :
         /\ tickets = << [NoTicket EXCEPT !.id = 1, !.status = "open",
                                          !.tags = on_ticket] >>
         /\ loc = [type |-> type, tags |-> requested, tags0 |-> on_ticket,
                   calls |-> <<>>, applied |-> 0]
    /\ ctx = [issue |-> NoIssue, ticket |-> tickets[1]]
    /\ issue = NoIssue
    /\ redis = <<>>
    /\ cfg = "none"
    /\ pc = "handler"
    /\ env = 0
    /\ interrupts = 0
    /\ obs = Obs("none")
    /\ lastRun = <<>>
    /\ onceRuns = [jira |-> 0, zd |-> 0]
    /\ escRuns = 0
    /\ quiet = FALSE
    /\ missed = {}
    /\ aborted = {}

TagsFrame == UNCHANGED <<issue, redis, cfg, pc, env, interrupts, lastRun, onceRuns, escRuns, quiet, missed, aborted>>

\* handle_add_ticket_tags(ctx, tags): ctx.ticket.add_tags(*absent_tags) and
\* refresh_ticket when there are any
apply_add_ticket_tags ==
    /\ pc = "handler"
    /\ loc.type = "add_ticket_tags"
    /\ loc.applied < 2
    /\ LET absent == absent_tags(loc.tags, ctx.ticket)
       IN  IF absent # {}
           THEN /\ tickets' = [tickets EXCEPT ![1].tags = @ \cup absent]
                /\ ctx' = [ctx EXCEPT !.ticket = tickets'[1]]
                /\ obs' = Obs("add_tags")
                /\ loc' = [loc EXCEPT !.applied = @ + 1,
                                      !.calls = Append(@, [at |-> loc.applied + 1,
                                                           op |-> "add_tags",
                                                           tags |-> absent])]
           ELSE /\ UNCHANGED <<tickets, ctx>>
                /\ obs' = Obs("none")
                /\ loc' = [loc EXCEPT !.applied = @ + 1]
    /\ TagsFrame

\* handle_remove_ticket_tags(ctx, tags): ctx.ticket.remove_tags(*present_tags) and
\* refresh_ticket when there are any
apply_remove_ticket_tags ==
    /\ pc = "handler"
    /\ loc.type = "remove_ticket_tags"
    /\ loc.applied < 2
    /\ LET present == present_tags(loc.tags, ctx.ticket)
       IN  IF present # {}
           THEN /\ tickets' = [tickets EXCEPT ![1].tags = @ \ present]
                /\ ctx' = [ctx EXCEPT !.ticket = tickets'[1]]
                /\ obs' = Obs("remove_tags")
                /\ loc' = [loc EXCEPT !.applied = @ + 1,
                                      !.calls = Append(@, [at |-> loc.applied + 1,
                                                           op |-> "remove_tags",
                                                           tags |-> present])]
           ELSE /\ UNCHANGED <<tickets, ctx>>
                /\ obs' = Obs("none")
                /\ loc' = [loc EXCEPT !.applied = @ + 1]
    /\ TagsFrame

TagsNext ==
    \/ apply_add_ticket_tags
    \/ apply_remove_ticket_tags

TagsSpec == TagsInit /\ [][TagsNext]_vars

\* the one call the first application may make: its tags, and the ticket's after it
TagsToSend ==
    IF loc.type = "add_ticket_tags"
    THEN {t \in loc.tags : t \notin loc.tags0}
    ELSE {t \in loc.tags : t \in loc.tags0}

TagsAfterwards ==
    IF loc.type = "add_ticket_tags"
    THEN {t \in TagNames : t \in loc.tags0 \/ t \in loc.tags}
    ELSE {t \in TagNames : t \in loc.tags0 /\ t \notin loc.tags}

\* C25: the first application of a tag handler makes one call, with exactly the
\* requested tags the ticket lacks (add) or has (remove), and no call when there
\* are none; the second application right after it makes no call and leaves the
\* ticket's tags as the first left them.
C25_TagHandlersIdempotent ==
    loc.applied >= 1 =>
        /\ loc.calls = IF TagsToSend = {} THEN <<>>
                       ELSE << [at |-> 1,
                                op |-> IF loc.type = "add_ticket_tags"
                                       THEN "add_tags" ELSE "remove_tags",
                                tags |-> TagsToSend] >>
        /\ tickets[1].tags = TagsAfterwards
        /\ ctx.ticket.tags = TagsAfterwards
        /\ loc.applied = 2 => obs.op = "none"

\* C25's case: some of the requested tags were on the ticket and some were not;
\* the handler sent only part of them, and was then applied again.
C25_Witness ==
    /\ loc.applied = 2
    /\ Len(loc.calls) = 1
    /\ loc.calls[1].tags # loc.tags
    /\ loc.calls[1].tags # {}
    /\ Cardinality(loc.tags) >= 2

\* the step of sync_issue a position belongs to: 0 before the steps (and between
\* passes), 1..6 for the six calls after ensure_ticket_if_eligible, 7 at the return
StepOf(p) ==
    IF p = "ref" THEN 1
    ELSE IF p = "prio" THEN 2
    ELSE IF p \in {"assignee", "escalate", "post_escalation",
                   "persist_assignee", "persist_group"} THEN 3
    ELSE IF p \in {"zd2jira", "zd_comment", "zd_comment_seen"} THEN 4
    ELSE IF p \in {"jira_comment", "jira_comment_seen"} THEN 5
    ELSE IF p \in {"status", "rules", "action",
                   "persist_jira_status", "persist_zd_status"} THEN 6
    ELSE IF p = "done" THEN 7
    ELSE 0

\* the positions a step returns from
StepEnds ==
    {"cache", "ref", "prio", "assignee", "persist_group", "zd_comment", "jira_comment",
     "persist_zd_status"}

\* one transition of the pass, as the order of the steps allows it
StepOrder ==
    /\ StepOf(pc') \in {StepOf(pc), StepOf(pc) + 1, 0}
    /\ StepOf(pc') = StepOf(pc) + 1 =>
          /\ pc \in StepEnds
          /\ interrupts' = interrupts
          /\ ctx.ticket.id # 0
    /\ (StepOf(pc') = 0 /\ StepOf(pc) # 0) => (pc' = "idle" /\ ctx' = NoCtx)
    /\ interrupts' # interrupts => pc' = "idle"

\* C26: with a ticket resolved, the steps of sync_issue start in the order
\* reference field, priority, assignee and group, ticket comments to the issue,
\* issue comments to the ticket, status actions: a step starts only from the
\* return of the step before it, and a transition in which a step raises takes the
\* pass to its end with no later step started.
C26_StepsInFixedOrder == [][StepOrder]_vars

\* C26's case: one pass was ended by an error in a step, and a later pass has
\* gone through all six steps to its return.
C26_Witness ==
    /\ pc = "done"
    /\ interrupts > 0
    /\ loc.scanned = {"jira", "zd"}
    /\ loc.read # <<>>
    /\ loc.prio0 # <<>>

\* C27: when the last pass returned and nobody has acted on the issue or a ticket
\* since, no step of the pass that follows writes to the tracker or the desk: no
\* step's outbound call is an assignment, a ticket creation or update, a comment,
\* a transition or a tag change.
C27_SecondPassWritesNothing ==
    quiet => obs.op = "none"

\* the comments the bridge appended: its copies on the issue and on the tickets
\* (a ticket's initial comment is part of the ticket's creation and has no source)
BridgeCommentsInJira ==
    {i \in DOMAIN issue.comments : issue.comments[i].author = jira_identity}

BridgeCommentsInZd == {d \in AllZdComments : d.author = zd_identity /\ d.src # 0}

AllHumanZdComments == {c \in AllZdComments : c.author # zd_identity}

\* every comment the bridge appended is the copy of a comment a person wrote on
\* the other side
CopiesAreOfPeople ==
    /\ \A i \in BridgeCommentsInJira :
          \E c \in AllHumanZdComments : c.public /\ c.id = issue.comments[i].src
    /\ \A d \in BridgeCommentsInZd :
          \E j \in DOMAIN issue.comments :
             /\ issue.comments[j].id = d.src
             /\ issue.comments[j].author # jira_identity

\* the bridge has appended no more comments than people have written
CopiesWithinHumanCount ==
    Cardinality(BridgeCommentsInJira) + Cardinality(BridgeCommentsInZd)
        <= Cardinality(AllHumanZdComments) + Cardinality(HumanJiraComments)

\* C28: no comment of the bridge is copied back (every comment it appended to the
\* issue is the copy of a public ticket comment of a person, every comment it
\* appended to a ticket is the copy of an issue comment of a person), and the
\* comments it has appended are at most as many as the comments people wrote on
\* the two sides.
C28_NoEchoAndBoundedCopies ==
    /\ CopiesAreOfPeople
    /\ CopiesWithinHumanCount

\* without an interrupted pass the count of C28 holds
CopiesWithinHumanCountUninterrupted ==
    interrupts = 0 => CopiesWithinHumanCount

----------------------------------------------------------------------------
\* the branch sync_assignee took in the running pass
BranchRead ==
    assignee_branch(AssigneeRead.assignee, AssigneeRead.group_id,
                    AssigneeRead.last_seen_jira_assignee, AssigneeRead.last_seen_zd_group)

\* the running pass read the issue unassigned, or assigned to another than the
\* assignee last seen
UnassignedOrReassigned ==
    /\ loc.read # <<>>
    /\ BranchRead \in {"unassigned", "assignee_changed"}

\* the running pass is in handle_escalation or has called a strategy method
Escalating ==
    \/ pc \in {"escalate", "post_escalation"}
    \/ loc.escCalls # {}
    \/ "escalate" \in loc.corrective

\* C29: a pass that reads the issue unassigned, or assigned to another than the
\* assignee last seen, never escalates, and when its sync_assignee has returned
\* the last-seen group is the ticket's group; and a ticket whose move to a group
\* other than support such a pass recorded is not escalated by that pass nor by
\* any later one for as long as the ticket's group is not changed again.
C29_UnescalatedMoveStaysUnescalated ==
    /\ UnassignedOrReassigned =>
          /\ ~Escalating
          /\ pc = "zd2jira" =>
                RedisGet(redis.last_seen_zd_group, ctx.ticket.id)
                    = RedisStr(ctx.ticket.group_id)
    /\ Escalating => ctx.ticket.id \notin missed

\* a later pass finds the ticket still in the escalation group that an earlier
\* pass recorded without escalating, and its sync_assignee returns at once
C29_Witness ==
    /\ pc = "zd2jira"
    /\ ctx.ticket.id \in missed
    /\ loc.read # <<>>
    /\ BranchRead = "unchanged"
    /\ AssigneeRead.group_id # zd_support_group.id
    /\ matching_strategy_defs(find_group_by_id(AssigneeRead.group_id).name) # {}
    /\ loc.escCalls = {}

\* the pass that records the move without escalating: the issue was unassigned
C29_UnassignedRecordsReached ==
    /\ pc = "zd2jira"
    /\ loc.read # <<>>
    /\ BranchRead = "unassigned"
    /\ ctx.ticket.id \in missed
    /\ AssigneeRead.last_seen_zd_group = <<zd_support_group.id>>

----------------------------------------------------------------------------
\* the pass is at an only_once action of a table in which, for this ticket, a
\* handler's error left an only_once action unrun, the statuses written then
\* being the statuses still
AtAbortedOnlyOnce ==
    /\ pc = "action"
    /\ loc.ai <= Len(CurrentActions)
    /\ CurrentAction.only_once
    /\ [side |-> loc.side, ticket |-> ctx.ticket.id] \in aborted

\* C30: when sync_status has returned, the last-seen statuses are the issue's and
\* the ticket's statuses as the pass holds them, also when a handler raised in
\* it; and an only_once action that raised, or that the return after the error
\* left unrun, is skipped (its handler is not called) on every later pass for as
\* long as neither status has changed.
C30_AbortedOnlyOnceNotRetried ==
    /\ pc = "done" =>
          /\ redis.last_seen_jira_status = RedisStr(ctx.issue.status)
          /\ RedisGet(redis.last_seen_zd_status, ctx.ticket.id) = RedisStr(ctx.ticket.status)
    /\ AtAbortedOnlyOnce => only_once_skipped(CurrentAction, CurrentChanged)

\* a later pass is at the only_once transition that raised in an earlier pass,
\* with both statuses as they were written, and skips it
C30_Witness ==
    /\ AtAbortedOnlyOnce
    /\ CurrentAction.type = "transition_issue"
    /\ loc.raised = {}
    /\ ~CurrentChanged
    /\ redis.last_seen_jira_status = RedisStr(issue.status)

\* sync_status returns after a handler raised in it and left an only_once action
\* unrun
C30_RaisedAndWrittenReached ==
    /\ pc = "done"
    /\ loc.cut # {}
    /\ [side |-> "jira", ticket |-> ctx.ticket.id] \in aborted

\* the second only_once action of the rule, left unrun by the return, is skipped
\* on a later pass
C30_SkippedByAbortReached ==
    /\ AtAbortedOnlyOnce
    /\ CurrentAction.type = "add_ticket_tags"
    /\ ~CurrentChanged

----------------------------------------------------------------------------
\* sync_status is about to compute owned from ctx.issue.fields.assignee.name
ComputesOwned == pc = "status"

\* sync_assignee is about to write ctx.issue.fields.assignee.name as last seen
PersistsAssignee == pc = "persist_assignee"

\* C31: whenever sync_status computes the owned flag, and whenever sync_assignee
\* writes the last-seen assignee, the issue the pass holds has an assignee; also
\* when someone unassigns the issue while the pass is running and when the
\* matched escalation strategy returns no contact.
C31_AssigneeSetWhenRead ==
    (ComputesOwned \/ PersistsAssignee) => ctx.issue.assignee # NoAssignee

\* the first half of C31 alone: sync_status always finds an assignee
C31_OwnedReadsAnAssignee ==
    ComputesOwned => ctx.issue.assignee # NoAssignee

\* the second half of C31 alone: sync_assignee always writes an assignee's name
C31_PersistsAnAssignee ==
    PersistsAssignee => ctx.issue.assignee # NoAssignee

----------------------------------------------------------------------------
\* the pass found a ticket for the issue that was not closed
OpenTicketFound ==
    /\ pc \notin {"idle", "ensure"}
    /\ loc.found # 0
    /\ ~loc.foundClosed

\* C32: is_issue_eligible is asked only when no ticket was found for the issue or
\* the one found is closed; a pass that found a ticket that is not closed goes
\* on with that ticket, without asking, whatever the issue's status and assignee,
\* and no ticket is created in it.
C32_EligibilityOnlyWithoutOpenTicket ==
    /\ obs.elig # <<>> =>
          \/ obs.elig[1].found = 0
          \/ obs.elig[1].pre.tickets[obs.elig[1].found].status = "closed"
    /\ (OpenTicketFound /\ pc = "cache") =>
          /\ obs.elig = <<>>
          /\ ctx.ticket.id = loc.found
    /\ OpenTicketFound => Len(tickets) = loc.t0

\* C32's case: a pass that found the issue's open ticket has run through all its
\* steps, the issue being resolved and assigned to a person
C32_Witness ==
    /\ OpenTicketFound
    /\ pc = "done"
    /\ ctx.issue.status \in jira_solved_statuses
    /\ ctx.issue.assignee \in JiraPeople
    /\ ~is_issue_eligible(ctx.issue.status, ctx.issue.assignee)

====
